---- MODULE Spec2Model ----
(***************************************************************************)
(* Model of the agentic orchestration engine of intent_langgraph.py: the   *)
(* mock domain store and its tools, the three tool dispatchers, the reply  *)
(* extractor, and the planner / executor / responder loop instantiated for *)
(* the Create, Update and Info domains.                                    *)
(*                                                                         *)
(* Python dictionaries are records (functions over their present keys), so *)
(* "key in d" is  k \in DOMAIN d.  A Python list that is an alias of a     *)
(* list held by the store is a record [list |-> <where it lives>]: its     *)
(* contents are read from the store at the time of use.  Time stamps       *)
(* (createdAt, updatedAt) and free-text messages are left out.             *)
(***************************************************************************)
EXTENDS Integers, Sequences, FiniteSets, TLC

VARIABLES
    domain,            \* which loop this run instantiates: "create", "update", "info"
    intent,            \* the intent the classifier recorded, a JSON value
    intent_confidence, \* the confidence it recorded, a JSON value
    user_query,        \* the lower-cased rule names that occur in the user query
    node,              \* position in the compiled graph
    iteration_count,
    next_action,
    selected_tool,
    tool_parameters,
    has_completed,     \* has_completed_creation / has_completed_update / has_sufficient_data
    reasoning,
    tools_called,      \* the call history channel (reducer operator.add)
    entities,          \* created_entities / updated_entities / gathered_data
    validation_errors,
    final_response,
    store,             \* MOCK_DATABASE
    crash,             \* the exception that left the graph, "" while none has
    last_reply,        \* the decision service's previous planning reply
    reply_changes,     \* how often the decision service has changed its reply
    executions,        \* how many times an executor node has run (history)
    response_text,     \* the text handed to safe_parse_json on its own
    parsed             \* what that call returned, << >> before it returns

vars == <<domain, intent, intent_confidence, user_query, node, iteration_count, next_action, selected_tool,
          tool_parameters, has_completed, reasoning, tools_called, entities,
          validation_errors, final_response, store, crash, last_reply,
          reply_changes, executions, response_text, parsed>>

----------------------------------------------------------------------------
(* Bounds of the model and constants of the program.                       *)

\* The decision service may change its planning reply this many times in a
\* run (its first reply counts); after that it repeats its last reply.
MaxReplyChanges == 2

\* The longest text, in tokens, safe_parse_json is called on by itself.
MaxTextLen == 6

MaxIterationsCreate == 8
MaxIterationsUpdate == 8
MaxIterationsInfo == 5

MinFrequencyMHz == 10
MaxFrequencyMHz == 6000
MinThreshold == -150
MaxThreshold == 150

----------------------------------------------------------------------------
(* Python dictionaries.                                                    *)

EmptyDict == [k \in {} |-> TRUE]

Has(d, k) == k \in DOMAIN d

Get(d, k, default) == IF k \in DOMAIN d THEN d[k] ELSE default

Put(d, k, v) == [x \in (DOMAIN d) \cup {k} |-> IF x = k THEN v ELSE d[x]]

\* JSON values that are not what the reader of a field expects.
JsonNull == [json |-> "null"]
JsonArray == [json |-> "array"]          \* a non-empty array
JsonString(s) == [json |-> "string", value |-> s]
JsonObject(d) == [json |-> "object", value |-> d]
JsonNumber(digits) == [json |-> "number", value |-> digits]   \* by its decimal text

IsMapping(v) == v.json = "object"

\* A test that takes None for a value.
Truthy_OfNone(v) ==
    CASE v.json = "string" -> v.value # ""
      [] OTHER -> TRUE

\* Python truthiness of a JSON value: None and "" are falsy, a non-empty
\* array is truthy.
Truthy(v) ==
    CASE v.json = "null" -> FALSE
      [] v.json = "string" -> v.value # ""
      [] OTHER -> TRUE

\* Only strings (and None) can be looked up in a registry: a list is unhashable.
Hashable(v) == v.json \in {"string", "null"}

----------------------------------------------------------------------------
(* MOCK_DATABASE.                                                          *)

MOCK_DATABASE ==
    [rules |-> <<
        [id |-> "rule-001", name |-> "5G Monitor", isEnabled |-> TRUE],
        [id |-> "rule-002", name |-> "LTE Detector", isEnabled |-> TRUE],
        [id |-> "rule-003", name |-> "Energy Threshold Alert", isEnabled |-> FALSE] >>,
     conditions |->
        [r \in {"rule-001", "rule-002", "rule-003"} |->
            CASE r = "rule-001" ->
                   << [id |-> "cond-001", rule_id |-> "rule-001",
                       conditionType |-> "signalDetection",
                       parameters |-> [minFrequencyMHz |-> 3400,
                                       maxFrequencyMHz |-> 3600,
                                       signalType |-> "5G"]] >>
              [] r = "rule-002" ->
                   << [id |-> "cond-002", rule_id |-> "rule-002",
                       conditionType |-> "signalDetection",
                       parameters |-> [minFrequencyMHz |-> 1800,
                                       maxFrequencyMHz |-> 2100,
                                       signalType |-> "LTE"]] >>
              [] OTHER ->
                   << [id |-> "cond-003", rule_id |-> "rule-003",
                       conditionType |-> "spectralEnergy",
                       parameters |-> [minFrequencyMHz |-> 2400,
                                       maxFrequencyMHz |-> 2500,
                                       threshold_dBm |-> -70]] >>],
     actions |->
        [r \in {"rule-001", "rule-002", "rule-003"} |->
            CASE r = "rule-001" ->
                   << [id |-> "act-001", rule_id |-> "rule-001",
                       actionType |-> "userNotification",
                       parameters |-> [message |-> "5G signal detected in mid-band"]] >>
              [] r = "rule-002" ->
                   << [id |-> "act-002", rule_id |-> "rule-002",
                       actionType |-> "frequencyScanRequest",
                       parameters |-> [sensorIds |-> <<"sensor-01", "sensor-02">>]] >>
              [] OTHER ->
                   << [id |-> "act-003", rule_id |-> "rule-003",
                       actionType |-> "geolocationRequest",
                       parameters |-> [algorithm |-> "TDOA",
                                       sensorIds |-> <<"sensor-01", "sensor-02",
                                                       "sensor-03">>]] >>]]

\* str.lower() on the rule names the model uses.
Lower(name) ==
    CASE name = "5G Monitor" -> "5g monitor"
      [] name = "LTE Detector" -> "lte detector"
      [] name = "Energy Threshold Alert" -> "energy threshold alert"
      [] name = "New Rule" -> "new rule"
      [] OTHER -> name

\* uuid.uuid4(): an identifier no stored object has yet.
NewRuleId(db) == "rule-new-" \o ToString(Len(db.rules))
NewConditionId(db) == "cond-new-" \o ToString(Len(db.rules))
NewActionId(db) == "act-new-" \o ToString(Len(db.rules))

RuleIndex(db, rule_id) ==
    LET hits == {i \in 1..Len(db.rules) : db.rules[i].id = rule_id}
    IN IF hits = {} THEN 0 ELSE CHOOSE i \in hits : \A j \in hits : i <= j

ValidSignals == {"Energy", "5G", "LTE", "QPSK", "CW", "PCMPM", "CPM", "CPMFM",
                 "BPSK", "SOQPSK"}
ValidConditionTypes == {"signalDetection", "spectralEnergy"}
ValidActionTypes == {"frequencyScanRequest", "geolocationRequest", "userNotification"}
ValidAlgorithms == {"TDOA", "PDOA"}

----------------------------------------------------------------------------
(* The tools.  A tool takes the store and its keyword arguments and yields *)
(* [db, args, ret] when it returns, where db is the store after the call   *)
(* and args the arguments after it (a tool may write into a dictionary it  *)
(* was passed).  An optional argument that was not passed is None, which   *)
(* is read here as "not a key of args".                                    *)

Returned(db, args, ret) == [db |-> db, args |-> args, ret |-> ret]

ErrorResult(msg) == [error |-> msg]

list_automation_rules(db, args) == Returned(db, args, [list |-> "rules"])

get_automation_rule(db, args) ==
    IF RuleIndex(db, args.rule_id) # 0
    THEN Returned(db, args, [ref |-> "rule", id |-> args.rule_id])
    ELSE Returned(db, args,
                  ErrorResult("Rule with id '" \o args.rule_id \o "' not found"))

list_conditions_for_rule(db, args) ==
    IF args.rule_id \in DOMAIN db.conditions
    THEN Returned(db, args, [list |-> "conditions", rule_id |-> args.rule_id])
    ELSE Returned(db, args, [list |-> "empty"])

list_actions_for_rule(db, args) ==
    IF args.rule_id \in DOMAIN db.actions
    THEN Returned(db, args, [list |-> "actions", rule_id |-> args.rule_id])
    ELSE Returned(db, args, [list |-> "empty"])

\* The objects a list result stands for, read from the store.
ListItems(db, lst) ==
    CASE lst.list = "rules" -> db.rules
      [] lst.list = "conditions" -> db.conditions[lst.rule_id]
      [] lst.list = "actions" -> db.actions[lst.rule_id]
      [] OTHER -> << >>

\* "Reset condition satisfaction states" of activate_automation_rule.
ResetConditions(conds) ==
    [i \in 1..Len(conds) |->
        Put(Put(conds[i], "isSatisfied", FALSE), "satisfiedAt", "None")]

\* An activation that does not look at isEnabled first.
activate_automation_rule_Again(db, args) ==
    LET i == RuleIndex(db, args.rule_id) IN
    IF i = 0
    THEN Returned(db, args,
                  ErrorResult("Rule with ID '" \o args.rule_id \o "' not found"))
    ELSE LET rules2 == [db.rules EXCEPT ![i].isEnabled = TRUE]
             conds2 == IF args.rule_id \in DOMAIN db.conditions
                       THEN [db.conditions EXCEPT
                               ![args.rule_id] = ResetConditions(@)]
                       ELSE db.conditions
         IN Returned([db EXCEPT !.rules = rules2, !.conditions = conds2], args,
                     [success |-> TRUE, rule_id |-> args.rule_id,
                      rule_name |-> db.rules[i].name, status |-> "activated"])

activate_automation_rule(db, args) ==
    LET i == RuleIndex(db, args.rule_id) IN
    IF i = 0
    THEN Returned(db, args,
                  ErrorResult("Rule with ID '" \o args.rule_id \o "' not found"))
    ELSE IF db.rules[i].isEnabled
    THEN Returned(db, args,
                  [success |-> TRUE, rule_id |-> args.rule_id,
                   rule_name |-> db.rules[i].name, status |-> "already_active"])
    ELSE LET rules2 == [db.rules EXCEPT ![i].isEnabled = TRUE]
             conds2 == IF args.rule_id \in DOMAIN db.conditions
                       THEN [db.conditions EXCEPT
                               ![args.rule_id] = ResetConditions(@)]
                       ELSE db.conditions
         IN Returned([db EXCEPT !.rules = rules2, !.conditions = conds2], args,
                     [success |-> TRUE, rule_id |-> args.rule_id,
                      rule_name |-> db.rules[i].name, status |-> "activated"])

deactivate_automation_rule(db, args) ==
    LET i == RuleIndex(db, args.rule_id) IN
    IF i = 0
    THEN Returned(db, args,
                  ErrorResult("Rule with ID '" \o args.rule_id \o "' not found"))
    ELSE IF ~db.rules[i].isEnabled
    THEN Returned(db, args,
                  [success |-> TRUE, rule_id |-> args.rule_id,
                   rule_name |-> db.rules[i].name, status |-> "already_inactive"])
    ELSE Returned([db EXCEPT !.rules[i].isEnabled = FALSE], args,
                  [success |-> TRUE, rule_id |-> args.rule_id,
                   rule_name |-> db.rules[i].name, status |-> "deactivated"])

\* Index of the object update_condition / update_action works on: the one
\* with the given id, the first one when no id was passed, 0 when not found.
TargetIndex(objs, args, id_key) ==
    IF Has(args, id_key) /\ args[id_key] # ""
    THEN LET hits == {i \in 1..Len(objs) : objs[i].id = args[id_key]}
         IN IF hits = {} THEN 0 ELSE CHOOSE i \in hits : \A j \in hits : i <= j
    ELSE 1

\* The error a parameter value is rejected with, "" when it is accepted.
ConditionParamError(k, v) ==
    CASE k = "minFrequencyMHz" /\ ~(MinFrequencyMHz <= v /\ v <= MaxFrequencyMHz)
           -> "minFrequencyMHz must be between 10 and 6000"
      [] k = "maxFrequencyMHz" /\ ~(MinFrequencyMHz <= v /\ v <= MaxFrequencyMHz)
           -> "maxFrequencyMHz must be between 10 and 6000"
      [] k = "signalType" /\ v \notin ValidSignals
           -> "Invalid signalType. Must be one of: valid_signals"
      [] k = "threshold_dBm" /\ ~(MinThreshold <= v /\ v <= MaxThreshold)
           -> "threshold_dBm must be between -150 and 150"
      [] OTHER -> ""

ActionParamError(k, v) ==
    CASE k = "message" /\ v = ""
           -> "Notification message cannot be empty"
      [] k = "sensorIds" /\ Len(v) = 0
           -> "sensorIds must be a non-empty list"
      [] k = "algorithm" /\ v \notin ValidAlgorithms
           -> "Invalid algorithm. Must be one of: valid_algorithms"
      [] OTHER -> ""

\* The keys update_condition / update_action look at, in the order of the code.
ConditionParamKeys == <<"minFrequencyMHz", "maxFrequencyMHz", "signalType",
                        "threshold_dBm">>
ActionParamKeys == <<"message", "sensorIds", "algorithm">>

\* Writes the given parameters into obj.parameters key by key, in the order
\* of the code, and stops at the first one that is rejected: the keys written
\* before it stay written.  [obj, error, updates].
RECURSIVE MergeParams(_, _, _, _, _, _)
MergeParams(obj, params, keys, i, updates, is_condition) ==
    IF i > Len(keys) THEN [obj |-> obj, error |-> "", updates |-> updates]
    ELSE LET k == keys[i] IN
         IF ~Has(params, k)
         THEN MergeParams(obj, params, keys, i + 1, updates, is_condition)
         ELSE LET err == IF is_condition THEN ConditionParamError(k, params[k])
                                         ELSE ActionParamError(k, params[k])
              IN IF err # ""
                 THEN [obj |-> obj, error |-> err, updates |-> updates]
                 ELSE MergeParams(
                        [obj EXCEPT !.parameters = Put(@, k, params[k])],
                        params, keys, i + 1, Append(updates, k), is_condition)

update_condition(db, args) ==
    IF RuleIndex(db, args.rule_id) = 0
    THEN Returned(db, args,
                  ErrorResult("Rule with ID '" \o args.rule_id \o "' not found"))
    ELSE LET conditions == Get(db.conditions, args.rule_id, << >>) IN
    IF Len(conditions) = 0
    THEN Returned(db, args,
                  ErrorResult("No conditions found for rule '" \o args.rule_id \o "'"))
    ELSE LET t == TargetIndex(conditions, args, "condition_id") IN
    IF t = 0
    THEN Returned(db, args,
                  ErrorResult("Condition with ID '" \o args.condition_id
                              \o "' not found for rule '" \o args.rule_id \o "'"))
    ELSE LET has_type == Has(args, "condition_type") /\ args.condition_type # "" IN
    IF has_type /\ args.condition_type \notin ValidConditionTypes
    THEN Returned(db, args,
                  ErrorResult("Invalid condition_type. Must be one of: valid_types"))
    ELSE LET c1 == IF has_type
                   THEN [conditions[t] EXCEPT !.conditionType = args.condition_type]
                   ELSE conditions[t]
             u1 == IF has_type THEN <<"conditionType">> ELSE << >>
             has_params == Has(args, "parameters") /\ DOMAIN args.parameters # {}
             m == IF has_params
                  THEN MergeParams(c1, args.parameters, ConditionParamKeys, 1, u1, TRUE)
                  ELSE [obj |-> c1, error |-> "", updates |-> u1]
             has_descr == Has(args, "description") /\ args.description # ""
             c3 == IF has_descr THEN Put(m.obj, "description", args.description)
                   ELSE m.obj
             u3 == IF has_descr THEN Append(m.updates, "description") ELSE m.updates
             written(c) == [db EXCEPT !.conditions[args.rule_id][t] = c]
         IN IF m.error # ""
            THEN Returned(written(m.obj), args, ErrorResult(m.error))
            ELSE IF u3 = << >>
            THEN Returned(written(c3), args,
                          [success |-> TRUE, condition_id |-> c3.id,
                           rule_id |-> args.rule_id,
                           message |-> "No changes were made. Provide parameters to update.",
                           current_condition |-> [ref |-> "condition", id |-> c3.id]])
            ELSE Returned(written(c3), args,
                          [success |-> TRUE, condition_id |-> c3.id,
                           rule_id |-> args.rule_id,
                           conditionType |-> c3.conditionType,
                           updates_made |-> u3,
                           updated_condition |-> [ref |-> "condition", id |-> c3.id]])

update_action(db, args) ==
    IF RuleIndex(db, args.rule_id) = 0
    THEN Returned(db, args,
                  ErrorResult("Rule with ID '" \o args.rule_id \o "' not found"))
    ELSE LET actions == Get(db.actions, args.rule_id, << >>) IN
    IF Len(actions) = 0
    THEN Returned(db, args,
                  ErrorResult("No actions found for rule '" \o args.rule_id \o "'"))
    ELSE LET t == TargetIndex(actions, args, "action_id") IN
    IF t = 0
    THEN Returned(db, args,
                  ErrorResult("Action with ID '" \o args.action_id
                              \o "' not found for rule '" \o args.rule_id \o "'"))
    ELSE LET has_type == Has(args, "action_type") /\ args.action_type # "" IN
    IF has_type /\ args.action_type \notin ValidActionTypes
    THEN Returned(db, args,
                  ErrorResult("Invalid action_type. Must be one of: valid_types"))
    ELSE LET a1 == IF has_type
                   THEN [actions[t] EXCEPT !.actionType = args.action_type]
                   ELSE actions[t]
             u1 == IF has_type THEN <<"actionType">> ELSE << >>
             has_params == Has(args, "parameters") /\ DOMAIN args.parameters # {}
             m == IF has_params
                  THEN MergeParams(a1, args.parameters, ActionParamKeys, 1, u1, FALSE)
                  ELSE [obj |-> a1, error |-> "", updates |-> u1]
             has_descr == Has(args, "description") /\ args.description # ""
             a3 == IF has_descr THEN Put(m.obj, "description", args.description)
                   ELSE m.obj
             u3 == IF has_descr THEN Append(m.updates, "description") ELSE m.updates
             written(a) == [db EXCEPT !.actions[args.rule_id][t] = a]
         IN IF m.error # ""
            THEN Returned(written(m.obj), args, ErrorResult(m.error))
            ELSE IF u3 = << >>
            THEN Returned(written(a3), args,
                          [success |-> TRUE, action_id |-> a3.id,
                           rule_id |-> args.rule_id,
                           message |-> "No changes were made. Provide parameters to update.",
                           current_action |-> [ref |-> "action", id |-> a3.id]])
            ELSE Returned(written(a3), args,
                          [success |-> TRUE, action_id |-> a3.id,
                           rule_id |-> args.rule_id,
                           actionType |-> a3.actionType,
                           updates_made |-> u3,
                           updated_action |-> [ref |-> "action", id |-> a3.id]])

----------------------------------------------------------------------------
(* The creation tools.                                                     *)

NameIsEmpty(args) == args.name = "" \/ args.name = " "

NewRule(db, args) ==
    [id |-> NewRuleId(db), name |-> args.name,
     isEnabled |-> Get(args, "is_enabled", FALSE)]

create_automation_rule(db, args) ==
    IF NameIsEmpty(args)
    THEN Returned(db, args, ErrorResult("Rule name cannot be empty"))
    ELSE Returned([db EXCEPT !.rules = Append(@, NewRule(db, args))], args,
                  [ref |-> "rule", id |-> NewRuleId(db), name |-> args.name])

\* "Apply default frequency values if not provided": written into the
\* dictionary the caller passed.
WithFrequencyDefaults(cp) ==
    LET a == IF Has(cp, "minFrequencyMHz") THEN cp
             ELSE Put(cp, "minFrequencyMHz", MinFrequencyMHz)
    IN IF Has(a, "maxFrequencyMHz") THEN a
       ELSE Put(a, "maxFrequencyMHz", MaxFrequencyMHz)

\* Validation of a new condition's parameters (defaults already applied):
\* the error returned, "" when they are accepted.
NewConditionError(ctype, cp) ==
    LET lo == cp.minFrequencyMHz
        hi == cp.maxFrequencyMHz
    IN
    IF ~(MinFrequencyMHz <= lo /\ lo <= MaxFrequencyMHz
         /\ MinFrequencyMHz <= hi /\ hi <= MaxFrequencyMHz)
    THEN "Frequencies must be between 10 and 6000 MHz"
    ELSE IF lo >= hi
    THEN "minFrequencyMHz must be less than maxFrequencyMHz"
    ELSE IF ctype = "signalDetection" /\ ~Has(cp, "signalType")
    THEN "Missing required condition parameter: signalType"
    ELSE IF ctype = "signalDetection" /\ cp.signalType \notin ValidSignals
    THEN "Invalid signalType. Must be one of: valid_signals"
    ELSE IF ctype = "spectralEnergy" /\ ~Has(cp, "threshold_dBm")
    THEN "Missing required condition parameter: threshold_dBm"
    ELSE IF ctype = "spectralEnergy"
            /\ ~(MinThreshold <= cp.threshold_dBm /\ cp.threshold_dBm <= MaxThreshold)
    THEN "threshold_dBm must be between -150 and 150"
    ELSE ""

\* Validation of a new action: the error returned, "" when it is accepted.
NewActionError(args) ==
    IF ~Has(args, "action_type") \/ args.action_type = ""
    THEN "action_type is required (frequencyScanRequest, geolocationRequest, or userNotification)"
    ELSE IF args.action_type \notin ValidActionTypes
    THEN "Invalid action_type. Must be one of: valid_action_types"
    ELSE IF ~Has(args, "action_parameters") \/ DOMAIN args.action_parameters = {}
    THEN "action_parameters is required"
    ELSE LET at == args.action_type
             ap == args.action_parameters
    IN
    IF at = "frequencyScanRequest" /\ ~Has(ap, "sensorIds")
    THEN "frequencyScanRequest requires 'sensorIds' parameter"
    ELSE IF at = "frequencyScanRequest" /\ Len(ap.sensorIds) = 0
    THEN "sensorIds must be a non-empty list"
    ELSE IF at = "geolocationRequest" /\ ~Has(ap, "algorithm")
    THEN "Missing required action parameter: algorithm"
    ELSE IF at = "geolocationRequest" /\ ~Has(ap, "sensorIds")
    THEN "Missing required action parameter: sensorIds"
    ELSE IF at = "geolocationRequest" /\ ap.algorithm \notin ValidAlgorithms
    THEN "Invalid algorithm. Must be one of: valid_algorithms"
    ELSE IF at = "geolocationRequest" /\ Len(ap.sensorIds) < 2
    THEN "geolocationRequest requires at least 2 sensors"
    ELSE IF at = "userNotification" /\ ~Has(ap, "message")
    THEN "userNotification requires 'message' parameter"
    ELSE IF at = "userNotification" /\ ap.message = ""
    THEN "Notification message cannot be empty"
    ELSE ""

\* The condition carrying the identifier of another rule.
NewCondition_ForFirstRule(db, ctype, cp) ==
    [id |-> NewConditionId(db), rule_id |-> db.rules[1].id, conditionType |-> ctype,
     parameters |-> cp, isSatisfied |-> FALSE]

NewCondition(db, ctype, cp) ==
    [id |-> NewConditionId(db), rule_id |-> NewRuleId(db), conditionType |-> ctype,
     parameters |-> cp, isSatisfied |-> FALSE]

NewAction(db, args) ==
    [id |-> NewActionId(db), rule_id |-> NewRuleId(db),
     actionType |-> args.action_type, parameters |-> args.action_parameters]

\* MOCK_DATABASE[kind][rule_id].append(obj), creating the list when missing.
AppendFor(table, rule_id, obj) ==
    Put(table, rule_id, Append(Get(table, rule_id, << >>), obj))

ConditionTypeError(args) ==
    IF ~Has(args, "condition_type") \/ args.condition_type = ""
    THEN "condition_type is required (signalDetection or spectralEnergy)"
    ELSE IF args.condition_type \notin ValidConditionTypes
    THEN "Invalid condition_type. Must be one of: valid_condition_types"
    ELSE ""

create_rule_condition(db, args) ==
    IF NameIsEmpty(args)
    THEN Returned(db, args, ErrorResult("Rule name cannot be empty"))
    ELSE IF ConditionTypeError(args) # ""
    THEN Returned(db, args, ErrorResult(ConditionTypeError(args)))
    ELSE IF ~Has(args, "condition_parameters") \/ DOMAIN args.condition_parameters = {}
    THEN Returned(db, args, ErrorResult("condition_parameters is required"))
    ELSE LET cp == WithFrequencyDefaults(args.condition_parameters)
             args2 == [args EXCEPT !.condition_parameters = cp]
             err == NewConditionError(args.condition_type, cp)
         IN IF err # ""
            THEN Returned(db, args2, ErrorResult(err))
            ELSE Returned(
                   [db EXCEPT
                      !.rules = Append(@, NewRule(db, args)),
                      !.conditions = AppendFor(@, NewRuleId(db),
                                        NewCondition(db, args.condition_type, cp))],
                   args2,
                   [success |-> TRUE,
                    rule |-> [ref |-> "rule", id |-> NewRuleId(db), name |-> args.name],
                    rule_id |-> NewRuleId(db), rule_name |-> args.name,
                    condition |-> [ref |-> "condition", id |-> NewConditionId(db)],
                    condition_id |-> NewConditionId(db),
                    condition_type |-> args.condition_type])

create_rule_action(db, args) ==
    IF NameIsEmpty(args)
    THEN Returned(db, args, ErrorResult("Rule name cannot be empty"))
    ELSE IF NewActionError(args) # ""
    THEN Returned(db, args, ErrorResult(NewActionError(args)))
    ELSE Returned(
           [db EXCEPT
              !.rules = Append(@, NewRule(db, args)),
              !.actions = AppendFor(@, NewRuleId(db), NewAction(db, args))],
           args,
           [success |-> TRUE,
            rule |-> [ref |-> "rule", id |-> NewRuleId(db), name |-> args.name],
            rule_id |-> NewRuleId(db), rule_name |-> args.name,
            action |-> [ref |-> "action", id |-> NewActionId(db)],
            action_id |-> NewActionId(db),
            action_type |-> args.action_type])

create_rule_condition_action(db, args) ==
    IF NameIsEmpty(args)
    THEN Returned(db, args, ErrorResult("Rule name cannot be empty"))
    ELSE IF ConditionTypeError(args) # ""
    THEN Returned(db, args, ErrorResult(ConditionTypeError(args)))
    ELSE LET passed == Has(args, "condition_parameters")
                       /\ DOMAIN args.condition_parameters # {}
             cp == WithFrequencyDefaults(
                     IF passed THEN args.condition_parameters ELSE EmptyDict)
             \* an empty or missing dictionary is replaced by a local one
             args2 == IF passed THEN [args EXCEPT !.condition_parameters = cp]
                      ELSE args
             err == NewConditionError(args.condition_type, cp)
         IN IF err # ""
            THEN Returned(db, args2, ErrorResult(err))
            ELSE IF NewActionError(args) # ""
            THEN Returned(db, args2, ErrorResult(NewActionError(args)))
            ELSE Returned(
                   [db EXCEPT
                      !.rules = Append(@, NewRule(db, args)),
                      !.conditions = AppendFor(@, NewRuleId(db),
                                        NewCondition(db, args.condition_type, cp)),
                      !.actions = AppendFor(@, NewRuleId(db), NewAction(db, args))],
                   args2,
                   [success |-> TRUE,
                    rule |-> [ref |-> "rule", id |-> NewRuleId(db), name |-> args.name],
                    rule_id |-> NewRuleId(db), rule_name |-> args.name,
                    condition |-> [ref |-> "condition", id |-> NewConditionId(db)],
                    condition_id |-> NewConditionId(db),
                    condition_type |-> args.condition_type,
                    action |-> [ref |-> "action", id |-> NewActionId(db)],
                    action_id |-> NewActionId(db),
                    action_type |-> args.action_type])

----------------------------------------------------------------------------
(* Tool registries and dispatchers.                                        *)

AVAILABLE_CREATE_TOOLS ==
    {"list_automation_rules", "create_automation_rule", "create_rule_condition",
     "create_rule_action", "create_rule_condition_action"}

AVAILABLE_UPDATE_TOOLS ==
    {"list_automation_rules", "activate_automation_rule",
     "deactivate_automation_rule", "update_condition", "update_action"}

AVAILABLE_INFO_TOOLS ==
    {"list_automation_rules", "get_automation_rule", "list_conditions_for_rule",
     "list_actions_for_rule"}

RuleArguments == {"name", "description", "is_enabled", "max_executions",
                  "start_time", "end_time"}

\* The keyword parameters of each tool function and those without a default.
Accepted(tool) ==
    CASE tool = "list_automation_rules" -> {}
      [] tool \in {"get_automation_rule", "list_conditions_for_rule",
                   "list_actions_for_rule", "activate_automation_rule",
                   "deactivate_automation_rule"} -> {"rule_id"}
      [] tool = "update_condition" ->
           {"rule_id", "condition_id", "condition_type", "parameters", "description"}
      [] tool = "update_action" ->
           {"rule_id", "action_id", "action_type", "parameters", "description"}
      [] tool = "create_automation_rule" -> RuleArguments
      [] tool = "create_rule_condition" ->
           RuleArguments \cup {"condition_type", "condition_parameters",
                               "condition_description"}
      [] tool = "create_rule_action" ->
           RuleArguments \cup {"action_type", "action_parameters",
                               "action_description"}
      [] OTHER ->
           RuleArguments \cup {"condition_type", "condition_parameters",
                               "condition_description", "action_type",
                               "action_parameters", "action_description"}

Required(tool) ==
    CASE tool = "list_automation_rules" -> {}
      [] tool \in {"get_automation_rule", "list_conditions_for_rule",
                   "list_actions_for_rule", "activate_automation_rule",
                   "deactivate_automation_rule", "update_condition",
                   "update_action"} -> {"rule_id"}
      [] OTHER -> {"name", "description"}

ToolFunction(tool, db, args) ==
    CASE tool = "list_automation_rules" -> list_automation_rules(db, args)
      [] tool = "get_automation_rule" -> get_automation_rule(db, args)
      [] tool = "list_conditions_for_rule" -> list_conditions_for_rule(db, args)
      [] tool = "list_actions_for_rule" -> list_actions_for_rule(db, args)
      [] tool = "activate_automation_rule" -> activate_automation_rule(db, args)
      [] tool = "deactivate_automation_rule" -> deactivate_automation_rule(db, args)
      [] tool = "update_condition" -> update_condition(db, args)
      [] tool = "update_action" -> update_action(db, args)
      [] tool = "create_automation_rule" -> create_automation_rule(db, args)
      [] tool = "create_rule_condition" -> create_rule_condition(db, args)
      [] tool = "create_rule_action" -> create_rule_action(db, args)
      [] OTHER -> create_rule_condition_action(db, args)

Raised(db, parameters, exc) == [db |-> db, parameters |-> parameters, raised |-> exc]

\* The tool returned o: the parameters dictionary is the one it was passed.
AfterCall(o) == [db |-> o.db, parameters |-> JsonObject(o.args), ret |-> o.ret]

\* tool_info["function"](**parameters): Python binds the keywords before the
\* body runs, and raises TypeError when parameters is no mapping, holds a
\* keyword the function does not take, or lacks a required one.
\* [db, parameters, ret] or [db, parameters, raised].
CallWithKeywords(tool, db, parameters) ==
    IF ~IsMapping(parameters)
    THEN Raised(db, parameters, "argument after ** must be a mapping")
    ELSE IF (DOMAIN parameters.value) \ Accepted(tool) # {}
    THEN Raised(db, parameters, tool \o "() got an unexpected keyword argument")
    ELSE IF Required(tool) \ (DOMAIN parameters.value) # {}
    THEN Raised(db, parameters, tool \o "() missing required positional argument")
    ELSE AfterCall(ToolFunction(tool, db, parameters.value))

Registry(dom) ==
    CASE dom = "create" -> AVAILABLE_CREATE_TOOLS
      [] dom = "update" -> AVAILABLE_UPDATE_TOOLS
      [] OTHER -> AVAILABLE_INFO_TOOLS

\* The text an exception captured by the dispatcher is reported with.
CapturedError(dom, exc) ==
    IF dom = "info" THEN exc ELSE "Tool execution error: " \o exc

\* The call without the try block around it.
Caught_NoTry(dom, o) ==
    IF Has(o, "raised")
    THEN [db |-> o.db, parameters |-> o.parameters, thrown |-> o.raised]
    ELSE [db |-> o.db, parameters |-> o.parameters, result |-> o.ret]

\* try: return function(**parameters); except Exception as e: return error
Caught(dom, o) ==
    IF Has(o, "raised")
    THEN [db |-> o.db, parameters |-> o.parameters,
          result |-> ErrorResult(CapturedError(dom, o.raised))]
    ELSE [db |-> o.db, parameters |-> o.parameters, result |-> o.ret]

\* execute_create_tool / execute_update_tool / execute_info_tool.
\* [db, parameters, result] when the dispatcher returns, [db, parameters,
\* thrown] when an exception leaves it.  "tool_name not in REGISTRY" is
\* evaluated outside the try block and hashes tool_name.
ExecuteTool(dom, tool_name, parameters, db) ==
    IF ~Hashable(tool_name)
    THEN [db |-> db, parameters |-> parameters,
          thrown |-> "TypeError: unhashable type: 'list'"]
    ELSE IF tool_name.json # "string" \/ tool_name.value \notin Registry(dom)
    THEN [db |-> db, parameters |-> parameters,
          result |-> ErrorResult("Tool '" \o Get(tool_name, "value", "None")
                                 \o "' not found")]
    ELSE Caught(dom, CallWithKeywords(tool_name.value, db, parameters))

execute_create_tool(tool_name, parameters, db) ==
    ExecuteTool("create", tool_name, parameters, db)

execute_update_tool(tool_name, parameters, db) ==
    ExecuteTool("update", tool_name, parameters, db)

execute_info_tool(tool_name, parameters, db) ==
    ExecuteTool("info", tool_name, parameters, db)

\* isinstance(result, dict) and "error" in result
IsList(result) == Has(result, "list")
HasError(result) == ~IsList(result) /\ Has(result, "error")

----------------------------------------------------------------------------
(* Texts.  A text is a sequence of tokens, the white space between tokens  *)
(* left out: the code strips the texts it reads and its pattern skips      *)
(* white space.  Members(d) is the text of the scalar members of an object, *)
(* "k": v, ..., holding no brace and no fence; Key(k) is the text "k": in  *)
(* front of a nested object; ArrayText is a JSON array; Word is any other  *)
(* run of characters without brace or fence, JsonTag the word json.        *)

LBrace == [t |-> "{"]
RBrace == [t |-> "}"]
\* Three backquotes.
Fence == [t |-> "fence"]
JsonTag == [t |-> "json"]
Word == [t |-> "word"]
ArrayText == [t |-> "[]"]
Members(d) == [t |-> "members", v |-> d]
Key(k) == [t |-> "key", k |-> k]

NoParse == [ok |-> FALSE, value |-> JsonNull, next |-> 0]

\* The members of both objects, those of the later one winning.
Update(d, m) ==
    [k \in (DOMAIN d) \cup (DOMAIN m) |-> IF k \in DOMAIN m THEN m[k] ELSE d[k]]

RECURSIVE ParseObject(_, _), ParseMembers(_, _, _)

\* The JSON decoder on the object that opens at token i: [ok, value, next],
\* next being the place after its closing brace.
ParseObject(toks, i) ==
    IF i > Len(toks) THEN NoParse
    ELSE IF toks[i] # LBrace THEN NoParse
    ELSE ParseMembers(toks, i + 1, EmptyDict)

\* The members of an object from token j on, acc being those read so far.
ParseMembers(toks, j, acc) ==
    IF j > Len(toks) THEN NoParse
    ELSE IF toks[j] = RBrace THEN [ok |-> TRUE, value |-> acc, next |-> j + 1]
    ELSE IF toks[j].t = "members"
    THEN ParseMembers(toks, j + 1, Update(acc, toks[j].v))
    ELSE IF toks[j].t = "key"
    THEN IF ParseObject(toks, j + 1).ok
         THEN ParseMembers(toks, ParseObject(toks, j + 1).next,
                           Put(acc, toks[j].k,
                               JsonObject(ParseObject(toks, j + 1).value)))
         ELSE NoParse
    ELSE NoParse

\* json.loads(text.strip()): [ok, value]; ok is FALSE where the code gets
\* json.JSONDecodeError.
JsonLoads_NoNesting(toks) ==
    IF toks = <<ArrayText>> THEN [ok |-> TRUE, value |-> JsonArray]
    ELSE IF /\ ParseObject(toks, 1).ok
            /\ ParseObject(toks, 1).next = Len(toks) + 1
            /\ Len(toks) <= 3
    THEN [ok |-> TRUE, value |-> JsonObject(ParseObject(toks, 1).value)]
    ELSE [ok |-> FALSE, value |-> JsonNull]

JsonLoads(toks) ==
    IF toks = <<ArrayText>> THEN [ok |-> TRUE, value |-> JsonArray]
    ELSE IF ParseObject(toks, 1).ok /\ ParseObject(toks, 1).next = Len(toks) + 1
    THEN [ok |-> TRUE, value |-> JsonObject(ParseObject(toks, 1).value)]
    ELSE [ok |-> FALSE, value |-> JsonNull]

\* The opening of the pattern, a fence, json or not, and a brace: the place
\* of the brace when the pattern can start at token i, 0 when it cannot.
BlockOpens(toks, i) ==
    IF toks[i] # Fence THEN 0
    ELSE IF i + 1 <= Len(toks) /\ toks[i + 1] = JsonTag
    THEN IF i + 2 <= Len(toks) /\ toks[i + 2] = LBrace THEN i + 2 ELSE 0
    ELSE IF i + 1 <= Len(toks) /\ toks[i + 1] = LBrace THEN i + 1 ELSE 0

RECURSIVE BlockCloses(_, _)
\* The lazy end of the pattern: the first closing brace from token e on
\* that a fence follows, 0 when there is none.
BlockCloses(toks, e) ==
    IF e + 1 > Len(toks) THEN 0
    ELSE IF toks[e] = RBrace /\ toks[e + 1] = Fence THEN e
    ELSE BlockCloses(toks, e + 1)

RECURSIVE Search(_, _)
\* re.search(json_block_pattern, text) from token i on: the leftmost match,
\* as the places [first, last] of its group 1, or [first |-> 0].
Search(toks, i) ==
    IF i > Len(toks) THEN [first |-> 0, last |-> 0]
    ELSE IF BlockOpens(toks, i) # 0
            /\ BlockCloses(toks, BlockOpens(toks, i) + 1) # 0
    THEN [first |-> BlockOpens(toks, i),
          last |-> BlockCloses(toks, BlockOpens(toks, i) + 1)]
    ELSE Search(toks, i + 1)

RECURSIVE Find(_, _, _)
\* text.find from token i on: the first place of tok, 0 for -1.
Find(toks, tok, i) ==
    IF i > Len(toks) THEN 0
    ELSE IF toks[i] = tok THEN i
    ELSE Find(toks, tok, i + 1)

RECURSIVE RFind(_, _, _)
\* text.rfind from token i back: the last place of tok, 0 for -1.
RFind(toks, tok, i) ==
    IF i < 1 THEN 0
    ELSE IF toks[i] = tok THEN i
    ELSE RFind(toks, tok, i - 1)

\* The second method of extract_json_from_response.
BetweenBraces(toks) ==
    IF /\ Find(toks, LBrace, 1) # 0
       /\ RFind(toks, RBrace, Len(toks)) # 0
       /\ RFind(toks, RBrace, Len(toks)) > Find(toks, LBrace, 1)
    THEN SubSeq(toks, Find(toks, LBrace, 1), RFind(toks, RBrace, Len(toks)))
    ELSE toks

\* extract_json_from_response: the group of the first fenced block, else the
\* text from the first "{" to the last "}", else the text itself.
extract_json_from_response_BracesFirst(toks) ==
    IF BetweenBraces(toks) # toks THEN BetweenBraces(toks)
    ELSE IF Search(toks, 1).first # 0
    THEN SubSeq(toks, Search(toks, 1).first, Search(toks, 1).last)
    ELSE toks

extract_json_from_response(toks) ==
    IF Search(toks, 1).first # 0
    THEN SubSeq(toks, Search(toks, 1).first, Search(toks, 1).last)
    ELSE BetweenBraces(toks)

\* if default_value is None: default_value = {}
DefaultValue(default_value) ==
    IF default_value = JsonNull THEN JsonObject(EmptyDict) ELSE default_value

\* safe_parse_json(response_text, default_value): [value, ok].
safe_parse_json_NeverFails(toks, default_value) ==
    IF JsonLoads(toks).ok
    THEN [value |-> JsonLoads(toks).value, ok |-> TRUE]
    ELSE IF JsonLoads(extract_json_from_response(toks)).ok
    THEN [value |-> JsonLoads(extract_json_from_response(toks)).value, ok |-> TRUE]
    ELSE [value |-> DefaultValue(default_value), ok |-> TRUE]

safe_parse_json(toks, default_value) ==
    IF JsonLoads(toks).ok
    THEN [value |-> JsonLoads(toks).value, ok |-> TRUE]
    ELSE IF JsonLoads(extract_json_from_response(toks)).ok
    THEN [value |-> JsonLoads(extract_json_from_response(toks)).value, ok |-> TRUE]
    ELSE [value |-> DefaultValue(default_value), ok |-> FALSE]

----------------------------------------------------------------------------
(* Replies of the decision service.  A reply is [form, value]: value is    *)
(* the JSON value its text holds and form says how the text holds it:      *)
(*   "json"     the text is exactly the JSON value                         *)
(*   "fenced"   the JSON value sits in a fenced json block, prose before it    *)
(*   "wrapped"  the JSON value has prose before and after it               *)
(*   "prose"    the text holds no brace at all                             *)
(* A reply whose form is "unavailable" is no text: the call raised.        *)

Text(form, value) == [form |-> form, value |-> value]

\* The members of d that are written as scalars, and the nested object.
NestedKey == "tool_parameters"
IsNested(d) == Has(d, NestedKey) /\ IsMapping(d[NestedKey])
Scalars(d) == [k \in (DOMAIN d) \ (IF IsNested(d) THEN {NestedKey} ELSE {}) |-> d[k]]

\* The text of the members of an object.
MembersText(d) == IF DOMAIN d = {} THEN <<>> ELSE <<Members(d)>>

\* The JSON text of a value, as the prompts ask the service to write it.
Serialize(value) ==
    IF ~IsMapping(value) THEN <<ArrayText>>
    ELSE <<LBrace>> \o MembersText(Scalars(value.value))
         \o (IF IsNested(value.value)
             THEN <<Key(NestedKey), LBrace>>
                  \o MembersText(value.value[NestedKey].value) \o <<RBrace>>
             ELSE <<>>)
         \o <<RBrace>>

\* response.content
Content(text) ==
    CASE text.form = "json" -> Serialize(text.value)
      [] text.form = "fenced" ->
            <<Word, Fence, JsonTag>> \o Serialize(text.value) \o <<Fence>>
      [] text.form = "wrapped" -> <<Word>> \o Serialize(text.value) \o <<Word>>
      [] text.form = "prose" -> <<Word, Word>>
      [] OTHER -> <<>>

\* The name of the completion flag in each domain's state and decision.
CompletionKey(dom) ==
    CASE dom = "create" -> "has_completed_creation"
      [] dom = "update" -> "has_completed_update"
      [] OTHER -> "has_sufficient_data"

MaxIterations(dom) ==
    CASE dom = "create" -> MaxIterationsCreate
      [] dom = "update" -> MaxIterationsUpdate
      [] OTHER -> MaxIterationsInfo

----------------------------------------------------------------------------
(* The inputs the model draws: tool calls a planning reply may ask for,    *)
(* the planning replies, and the user queries.                             *)

Call(tool, parameters) == [selected_tool |-> tool, tool_parameters |-> parameters]

GoodRuleArgs == [name |-> "New Rule", description |-> "d"]

UpdateCalls ==
    { Call(JsonString("list_automation_rules"), JsonObject(EmptyDict)),
      Call(JsonString("list_automation_rules"), JsonObject([rule_id |-> "rule-001"])),
      Call(JsonString("activate_automation_rule"), JsonObject([rule_id |-> "rule-003"])),
      Call(JsonString("activate_automation_rule"), JsonObject([rule_id |-> "rule-001"])),
      Call(JsonString("activate_automation_rule"), JsonObject([rule_id |-> "rule-999"])),
      Call(JsonString("activate_automation_rule"), JsonObject(EmptyDict)),
      Call(JsonString("deactivate_automation_rule"), JsonObject([rule_id |-> "rule-003"])),
      Call(JsonString("deactivate_automation_rule"), JsonObject([rule_id |-> "rule-999"])),
      Call(JsonString("update_condition"),
           JsonObject([rule_id |-> "rule-002",
                       parameters |-> [minFrequencyMHz |-> 1900,
                                       maxFrequencyMHz |-> 2000]])),
      Call(JsonString("update_condition"),
           JsonObject([rule_id |-> "rule-002", condition_type |-> "spectralEnergy",
                       parameters |-> [minFrequencyMHz |-> 3000,
                                       maxFrequencyMHz |-> 7000]])),
      Call(JsonString("update_action"),
           JsonObject([rule_id |-> "rule-001",
                       parameters |-> [message |-> "changed"]])),
      Call(JsonString("update_action"),
           JsonObject([rule_id |-> "rule-003",
                       parameters |-> [sensorIds |-> <<"sensor-09">>,
                                       algorithm |-> "GPS"]])),
      Call(JsonString("create_automation_rule"), JsonObject(GoodRuleArgs)),
      Call(JsonString("activate_automation_rule"), JsonNull),
      Call(JsonNull, JsonObject(EmptyDict)),
      Call(JsonArray, JsonObject(EmptyDict)) }

CreateCalls ==
    { Call(JsonString("list_automation_rules"), JsonObject(EmptyDict)),
      Call(JsonString("create_automation_rule"), JsonObject(GoodRuleArgs)),
      Call(JsonString("create_automation_rule"),
           JsonObject([name |-> "", description |-> "d"])),
      Call(JsonString("create_automation_rule"), JsonObject([name |-> "New Rule"])),
      Call(JsonString("create_rule_condition"),
           JsonObject([name |-> "New Rule", description |-> "d",
                       condition_type |-> "signalDetection",
                       condition_parameters |-> [signalType |-> "5G"]])),
      Call(JsonString("create_rule_condition"),
           JsonObject([name |-> "New Rule", description |-> "d",
                       condition_type |-> "signalDetection",
                       condition_parameters |-> [minFrequencyMHz |-> 5000,
                                                 maxFrequencyMHz |-> 3000,
                                                 signalType |-> "5G"]])),
      Call(JsonString("create_rule_action"),
           JsonObject([name |-> "New Rule", description |-> "d",
                       action_type |-> "userNotification",
                       action_parameters |-> [message |-> "seen"]])),
      Call(JsonString("create_rule_action"),
           JsonObject([name |-> "New Rule", description |-> "d",
                       action_type |-> "geolocationRequest",
                       action_parameters |-> [algorithm |-> "TDOA",
                                              sensorIds |-> <<"sensor-01">>]])),
      Call(JsonString("create_rule_condition_action"),
           JsonObject([name |-> "New Rule", description |-> "d",
                       condition_type |-> "spectralEnergy",
                       condition_parameters |-> [threshold_dBm |-> -80],
                       action_type |-> "frequencyScanRequest",
                       action_parameters |-> [sensorIds |-> <<"sensor-01">>]])),
      Call(JsonString("create_rule_condition_action"),
           JsonObject([name |-> "New Rule", description |-> "d",
                       condition_type |-> "spectralEnergy",
                       condition_parameters |-> [threshold_dBm |-> -80],
                       action_type |-> "teleport",
                       action_parameters |-> [message |-> "seen"]])),
      Call(JsonString("activate_automation_rule"), JsonObject([rule_id |-> "rule-003"])),
      Call(JsonString("create_automation_rule"), JsonArray),
      Call(JsonString(""), JsonObject(EmptyDict)),
      Call(JsonArray, JsonObject(EmptyDict)) }

InfoCalls ==
    { Call(JsonString("list_automation_rules"), JsonObject(EmptyDict)),
      Call(JsonString("list_automation_rules"), JsonObject([rule_id |-> "rule-001"])),
      Call(JsonString("get_automation_rule"), JsonObject([rule_id |-> "rule-001"])),
      Call(JsonString("get_automation_rule"), JsonObject([rule_id |-> "rule-999"])),
      Call(JsonString("get_automation_rule"), JsonObject(EmptyDict)),
      Call(JsonString("list_conditions_for_rule"), JsonObject([rule_id |-> "rule-001"])),
      Call(JsonString("list_conditions_for_rule"), JsonObject([rule_id |-> "rule-999"])),
      Call(JsonString("list_actions_for_rule"), JsonObject([rule_id |-> "rule-002"])),
      Call(JsonString("list_actions_for_rule"), JsonNull),
      Call(JsonString("delete_rule"), JsonObject(EmptyDict)),
      Call(JsonNull, JsonObject(EmptyDict)),
      Call(JsonArray, JsonObject(EmptyDict)) }

Calls(dom) ==
    CASE dom = "create" -> CreateCalls
      [] dom = "update" -> UpdateCalls
      [] OTHER -> InfoCalls

\* A decision object that asks for a tool call.
CallDecision(dom, call, flag) ==
    Put([next_action |-> "call_tool", reasoning |-> "call a tool",
         selected_tool |-> call.selected_tool,
         tool_parameters |-> call.tool_parameters],
        CompletionKey(dom), flag)

\* Decision objects that ask for no tool call: respond, a next_action the
\* router does not know, and an object with no field at all.
OtherDecisions(dom) ==
    { Put([next_action |-> "respond", reasoning |-> "done",
           selected_tool |-> JsonNull, tool_parameters |-> JsonObject(EmptyDict)],
          CompletionKey(dom), flag) : flag \in BOOLEAN }
    \cup { Put([next_action |-> "confirm", reasoning |-> "ask the user"],
               CompletionKey(dom), FALSE),
           EmptyDict }

\* The first call of each domain's list also comes with the completion flag
\* set, and fenced or wrapped in prose.
FirstCall(dom) == Call(JsonString("list_automation_rules"), JsonObject(EmptyDict))

Replies(dom) ==
    { Text("json", JsonObject(CallDecision(dom, c, FALSE))) : c \in Calls(dom) }
    \cup { Text("json", JsonObject(d)) : d \in OtherDecisions(dom) }
    \cup { Text("json", JsonObject(CallDecision(dom, FirstCall(dom), TRUE))),
           Text("fenced", JsonObject(CallDecision(dom, FirstCall(dom), FALSE))),
           Text("wrapped", JsonObject(CallDecision(dom, FirstCall(dom), FALSE))),
           Text("json", JsonArray),
           Text("prose", JsonNull),
           Text("unavailable", JsonNull) }

\* The rule names (lower-cased) a user query holds.  Only the Update loop
\* reads the query.
Queries(dom) ==
    IF dom = "update"
    THEN { {}, {"energy threshold alert"}, {"lte detector", "5g monitor"} }
    ELSE { {} }

NoReply == Text("none", JsonNull)

----------------------------------------------------------------------------
(* The graph.  Each node returns {**state, ...}: every key of the state is *)
(* written back.  A plain key is overwritten with the value returned; the  *)
(* tools_called channel is declared Annotated[list, operator.add], so the  *)
(* list a node returns is added to the list the channel holds.  An         *)
(* exception raised in a node leaves the graph (workflow.invoke raises):   *)
(* the node's update is lost, what the node did to the store is not.       *)

Reduce(channel, returned) == channel \o returned

\* A router that sends everything but "respond" to the executor.
Route_UnlessRespond(action) ==
    IF action # "respond" THEN "execute_tool" ELSE "generate_response"

\* should_call_update_tool_or_respond, should_call_tool_or_respond,
\* should_call_info_tool_or_respond
Route(action) ==
    IF action = "call_tool" THEN "execute_tool" ELSE "generate_response"

\* The ceiling test written with > instead of >=.
CeilingReached_Late == iteration_count > MaxIterations(domain)

\* "Check iteration limit"
CeilingReached == iteration_count >= MaxIterations(domain)

ListLength(key) ==
    IF Has(entities, key) THEN Len(entities[key]) ELSE 0

\* plan_update_action_node: rule_retrieved_done and has_rule_id
RuleRetrievedDone ==
    Has(entities, "retrieved_rules")
    /\ Len(ListItems(store, entities.retrieved_rules)) > 0

HasRuleId == RuleRetrievedDone /\ Has(entities, "target_rule_id")

\* A planner that never takes the branch of the rule that was not found.
UnresolvedReference_Never == FALSE

\* A listing was retrieved and the target rule was not found in it.
UnresolvedReference == RuleRetrievedDone /\ ~HasRuleId

\* The completion predicate without its activation_done disjunct.
UpdateIsComplete_NoActivation ==
    \/ ListLength("conditions") > 0
    \/ ListLength("actions") > 0
    \/ ListLength("deactivations") > 0

\* condition_created or action_created or activation_done or deactivation_done
UpdateIsComplete ==
    \/ ListLength("conditions") > 0
    \/ ListLength("actions") > 0
    \/ ListLength("activations") > 0
    \/ ListLength("deactivations") > 0

\* A rule counts as created only with a condition or an action.
RuleAlreadyCreated_NeedsPart ==
    /\ ListLength("rules") > 0
    /\ (ListLength("conditions") > 0 \/ ListLength("actions") > 0)

\* plan_creation_action_node: rule_already_created
RuleAlreadyCreated == ListLength("rules") > 0

\* The decision a planning step returns: the six keys it sets.
Decision(action, flag, why, tool, parameters, count) ==
    [next_action |-> action, has_completed |-> flag, reasoning |-> why,
     selected_tool |-> tool, tool_parameters |-> parameters,
     iteration_count |-> count]

\* A forced completion that never writes iteration_count.
Forced_CountKept(why, count) ==
    Decision("respond", TRUE, why, selected_tool, tool_parameters, iteration_count)

\* A forced completion leaves selected_tool and tool_parameters as they are.
Forced(why, count) ==
    Decision("respond", TRUE, why, selected_tool, tool_parameters, count)

\* result.get("selected_tool", "") or ""
SelectedToolOrEmpty(d) ==
    LET v == Get(d, "selected_tool", JsonString(""))
    IN IF Truthy(v) THEN v ELSE JsonString("")

\* default_response of plan_update_action_node and plan_creation_action_node
default_response(dom) ==
    JsonObject(Put([next_action |-> "respond",
                    reasoning |-> "Parse error - defaulting to respond",
                    selected_tool |-> JsonNull,
                    tool_parameters |-> JsonObject(EmptyDict)],
                   CompletionKey(dom), TRUE))

\* The part of plan_update_action_node and plan_creation_action_node from
\* the call of the decision service on.
DecideWithExtractor(text) ==
    IF text.form = "unavailable" THEN [raised |-> "ConnectError"]
    ELSE LET p == safe_parse_json(Content(text), default_response(domain)) IN
    IF ~p.ok
    THEN Forced("Parse error - could not extract valid JSON from response",
                iteration_count + 1)
    ELSE IF ~IsMapping(p.value)
    THEN [raised |-> "AttributeError: 'list' object has no attribute 'get'"]
    ELSE LET d == p.value.value
         IN Decision(Get(d, "next_action", "respond"),
                     Get(d, CompletionKey(domain), FALSE),
                     Get(d, "reasoning", ""),
                     SelectedToolOrEmpty(d),
                     Get(d, "tool_parameters", JsonObject(EmptyDict)),
                     iteration_count + 1)

\* plan_update_action_node, given the reply the decision service would give.
PlanUpdate(text) ==
    IF CeilingReached THEN Forced("Maximum iterations reached", iteration_count)
    ELSE IF UnresolvedReference
    THEN Forced("Unable to find the rule to update the information.",
                iteration_count + 1)
    ELSE IF UpdateIsComplete
    THEN Forced("Updates are complete", iteration_count + 1)
    ELSE DecideWithExtractor(text)

\* plan_creation_action_node
PlanCreation(text) ==
    IF CeilingReached THEN Forced("Maximum iterations reached", iteration_count)
    ELSE IF RuleAlreadyCreated
            /\ (ListLength("conditions") > 0 \/ ListLength("actions") > 0)
    THEN Forced("Rule with condition or action has been created successfully",
                iteration_count)
    ELSE IF RuleAlreadyCreated
    THEN Forced("Rule created. No sufficient information for conditions or actions.",
                iteration_count)
    ELSE DecideWithExtractor(text)

\* plan_next_action_node reads gathered_data["all_rules"] as a list of rule
\* dictionaries: iterating the dictionary of an error result yields its
\* keys, and rule.get fails on a string.
AllRulesUnreadable ==
    Has(entities, "all_rules") /\ ~IsList(entities.all_rules)

\* plan_next_action_node: json.loads alone, no extractor; only
\* json.JSONDecodeError is caught.
PlanInfo(text) ==
    IF CeilingReached THEN Forced("Maximum iterations reached", iteration_count)
    ELSE IF AllRulesUnreadable
    THEN [raised |-> "AttributeError: 'str' object has no attribute 'get'"]
    ELSE IF text.form = "unavailable" THEN [raised |-> "ConnectError"]
    ELSE IF ~JsonLoads(Content(text)).ok
    THEN Forced("Parse error", iteration_count + 1)
    ELSE IF ~IsMapping(JsonLoads(Content(text)).value)
    THEN [raised |-> "AttributeError: 'list' object has no attribute 'get'"]
    ELSE LET d == JsonLoads(Content(text)).value.value
         IN Decision(Get(d, "next_action", "respond"),
                     Get(d, CompletionKey(domain), FALSE),
                     Get(d, "reasoning", ""),
                     Get(d, "selected_tool", JsonString("")),
                     Get(d, "tool_parameters", JsonObject(EmptyDict)),
                     iteration_count + 1)

PlanOutcome(text) ==
    CASE domain = "create" -> PlanCreation(text)
      [] domain = "update" -> PlanUpdate(text)
      [] OTHER -> PlanInfo(text)

\* plan_update_action_node: available_tools_filtered, {} standing for "".
available_tools_filtered ==
    IF UnresolvedReference \/ UpdateIsComplete THEN {}
    ELSE IF HasRuleId THEN AVAILABLE_UPDATE_TOOLS \ {"list_automation_rules"}
    ELSE AVAILABLE_UPDATE_TOOLS

\* tool_descriptions: the tools a planning step describes in its request to
\* the decision service.
tool_descriptions ==
    CASE domain = "update" -> available_tools_filtered
      [] domain = "create" -> AVAILABLE_CREATE_TOOLS
      [] OTHER -> AVAILABLE_INFO_TOOLS

\* Whether this planning step gets as far as calling the decision service.
ConsultsService ==
    /\ ~CeilingReached
    /\ domain = "update" => ~UnresolvedReference /\ ~UpdateIsComplete
    /\ domain = "create" => ~RuleAlreadyCreated
    /\ domain = "info" => ~AllRulesUnreadable

RaiseFrom(exc) ==
    /\ node' = "crashed"
    /\ crash' = exc
    /\ UNCHANGED <<iteration_count, next_action, selected_tool, tool_parameters,
                   has_completed, reasoning, tools_called, entities,
                   validation_errors, final_response>>

\* The planner node followed by the conditional edge out of it.
Planned(r) ==
    IF Has(r, "raised")
    THEN RaiseFrom(r.raised) /\ UNCHANGED store
    ELSE /\ next_action' = r.next_action
         /\ has_completed' = r.has_completed
         /\ reasoning' = r.reasoning
         /\ selected_tool' = r.selected_tool
         /\ tool_parameters' = r.tool_parameters
         /\ iteration_count' = r.iteration_count
         /\ tools_called' = Reduce(tools_called, tools_called)
         /\ node' = Route(r.next_action)
         /\ UNCHANGED <<entities, validation_errors, final_response, store, crash>>

PlanStep ==
    /\ node = "plan_action"
    /\ UNCHANGED <<domain, user_query, intent, intent_confidence,
                   executions, response_text, parsed>>
    /\ IF ConsultsService
       THEN \E text \in Replies(domain) :
               /\ text = last_reply \/ reply_changes < MaxReplyChanges
               /\ last_reply' = text
               /\ reply_changes' = IF text = last_reply THEN reply_changes
                                   ELSE reply_changes + 1
               /\ Planned(PlanOutcome(text))
       ELSE /\ Planned(PlanOutcome(NoReply))
            /\ UNCHANGED <<last_reply, reply_changes>>

plan_update_action_node == domain = "update" /\ PlanStep
plan_creation_action_node == domain = "create" /\ PlanStep
plan_next_action_node == domain = "info" /\ PlanStep

----------------------------------------------------------------------------
(* The executor nodes.                                                     *)

\* The record an executor adds when selected_tool is empty or None.
NoToolRecord ==
    [tool |-> "none", parameters |-> JsonObject(EmptyDict),
     result_summary |-> "No tool selected"]

\* What an executor node returns: the list handed to the tools_called
\* channel, the accumulator, the validation errors, and the store and the
\* tool_parameters dictionary as the tool left them.
Executed(records, acc, errors, db, parameters) ==
    [tools_called |-> records, entities |-> acc, validation_errors |-> errors,
     store |-> db, tool_parameters |-> parameters]

AppendTo(acc, key, item) == Put(acc, key, Append(Get(acc, key, << >>), item))

CountOf(db, result) == ToString(Len(ListItems(db, result)))

\* The last rule of the listing whose lower-cased name is in the query: the
\* loop without its break.
TargetRule_Last(db) ==
    LET hits == {i \in 1..Len(db.rules) : Lower(db.rules[i].name) \in user_query}
    IN IF hits = {} THEN 0 ELSE CHOOSE i \in hits : \A j \in hits : i >= j

\* The first rule of the listing whose lower-cased name is in the query.
TargetRule(db) ==
    LET hits == {i \in 1..Len(db.rules) : Lower(db.rules[i].name) \in user_query}
    IN IF hits = {} THEN 0 ELSE CHOOSE i \in hits : \A j \in hits : i <= j

\* execute_update_tool_node: "Track updated entities"
MergeUpdate(acc, tool, result, db) ==
    CASE tool = "list_automation_rules" ->
           LET a == Put(acc, "retrieved_rules", result)
               t == TargetRule(db)
           IN IF t = 0 THEN a
              ELSE Put(Put(a, "target_rule_id", db.rules[t].id),
                       "target_rule_name", db.rules[t].name)
      [] tool = "activate_automation_rule" -> AppendTo(acc, "activations", result)
      [] tool = "deactivate_automation_rule" -> AppendTo(acc, "deactivations", result)
      [] tool = "update_condition" -> AppendTo(acc, "conditions", result)
      [] tool = "update_action" -> AppendTo(acc, "actions", result)
      [] OTHER -> acc

UpdateSummary(tool, result, db) ==
    CASE tool = "list_automation_rules" ->
           "Retrieved " \o CountOf(db, result) \o " rules"
      [] tool = "activate_automation_rule" ->
           "Activated rule '" \o result.rule_name \o "' (ID: " \o result.rule_id \o ")"
      [] tool = "deactivate_automation_rule" ->
           "Deactivated rule '" \o result.rule_name \o "' (ID: " \o result.rule_id \o ")"
      [] tool = "update_condition" ->
           "Created " \o Get(result, "conditionType", "None")
              \o " condition with ID " \o result.condition_id
      [] tool = "update_action" ->
           "Created " \o Get(result, "actionType", "None")
              \o " action with ID " \o result.action_id
      [] OTHER -> "Successfully executed"

\* execute_creation_tool_node: "Track created entities"
MergeCreation(acc, tool, result) ==
    LET rule(a) == Put(AppendTo(a, "rules", result.rule),
                       "last_rule_id", result.rule_id)
        condition(a) == Put(AppendTo(a, "conditions", result.condition),
                            "last_condition_id", result.condition_id)
        action(a) == Put(AppendTo(a, "actions", result.action),
                         "last_action_id", result.action_id)
    IN CASE tool = "list_automation_rules" -> Put(acc, "retrieved_rules", result)
         [] tool = "create_automation_rule" ->
              Put(AppendTo(acc, "rules", result), "last_rule_id", result.id)
         [] tool = "create_rule_condition" -> condition(rule(acc))
         [] tool = "create_rule_action" -> action(rule(acc))
         [] tool = "create_rule_condition_action" -> action(condition(rule(acc)))
         [] OTHER -> acc

CreationSummary(tool, result, db) ==
    CASE tool = "list_automation_rules" ->
           "Retrieved " \o CountOf(db, result) \o " rules"
      [] tool = "create_automation_rule" ->
           "Created rule '" \o result.name \o "' with ID " \o result.id
      [] tool = "create_rule_condition" ->
           "Created rule '" \o result.rule_name \o "' (ID: " \o result.rule_id
              \o ") with " \o result.condition_type \o " condition (ID: "
              \o result.condition_id \o ")"
      [] tool = "create_rule_action" ->
           "Created rule '" \o result.rule_name \o "' (ID: " \o result.rule_id
              \o ") with " \o result.action_type \o " action (ID: "
              \o result.action_id \o ")"
      [] tool = "create_rule_condition_action" ->
           "Created rule '" \o result.rule_name \o "' (ID: " \o result.rule_id
              \o ") with " \o result.condition_type \o " condition (ID: "
              \o result.condition_id \o ") and " \o result.action_type
              \o " action (ID: " \o result.action_id \o ")"
      [] OTHER -> "Successfully created"

\* The record execute_update_tool_node and execute_creation_tool_node add.
CallRecord(tool, parameters, result, summary, has_error) ==
    [tool |-> tool, parameters |-> parameters, result |-> result,
     result_summary |-> summary, has_error |-> has_error]

\* execute_update_tool_node and execute_creation_tool_node after the
\* dispatcher returned o: an error goes to validation_errors and leaves the
\* accumulator alone, any other result is merged into the accumulator.
Tracked(dom, tool, o) ==
    IF Has(o, "thrown") THEN [raised |-> o.thrown, store |-> o.db]
    ELSE IF HasError(o.result)
    THEN Executed(<<CallRecord(tool, o.parameters, o.result, o.result.error, TRUE)>>,
                  entities, Append(validation_errors, o.result.error),
                  o.db, o.parameters)
    ELSE IF dom = "update"
    THEN Executed(<<CallRecord(tool, o.parameters, o.result,
                               UpdateSummary(tool, o.result, o.db), FALSE)>>,
                  MergeUpdate(entities, tool, o.result, o.db),
                  validation_errors, o.db, o.parameters)
    ELSE Executed(<<CallRecord(tool, o.parameters, o.result,
                               CreationSummary(tool, o.result, o.db), FALSE)>>,
                  MergeCreation(entities, tool, o.result),
                  validation_errors, o.db, o.parameters)

ExecuteUpdate ==
    IF ~Truthy(selected_tool)
    THEN Executed(<<NoToolRecord>>, entities, validation_errors, store,
                  tool_parameters)
    ELSE Tracked("update", Get(selected_tool, "value", ""),
                 execute_update_tool(selected_tool, tool_parameters, store))

ExecuteCreation ==
    IF ~Truthy(selected_tool)
    THEN Executed(<<NoToolRecord>>, entities, validation_errors, store,
                  tool_parameters)
    ELSE Tracked("create", Get(selected_tool, "value", ""),
                 execute_create_tool(selected_tool, tool_parameters, store))

\* The tools whose result execute_info_tool_node files under
\* parameters.get("rule_id", "unknown").
KeyedInfoTools == {"get_automation_rule", "list_conditions_for_rule",
                   "list_actions_for_rule"}

InfoKey(tool) ==
    CASE tool = "get_automation_rule" -> "rules"
      [] tool = "list_conditions_for_rule" -> "conditions"
      [] OTHER -> "actions"

\* execute_info_tool_node: "Update gathered data".  The result is stored
\* whether or not it is an error.
MergeInfo(acc, tool, parameters, result) ==
    IF tool = "list_automation_rules" THEN Put(acc, "all_rules", result)
    ELSE IF tool \in KeyedInfoTools
    THEN Put(acc, InfoKey(tool),
             Put(Get(acc, InfoKey(tool), EmptyDict),
                 Get(parameters.value, "rule_id", "unknown"), result))
    ELSE acc

InfoSummary(result, db) ==
    IF HasError(result) THEN result.error
    ELSE IF IsList(result) THEN "Retrieved " \o CountOf(db, result) \o " item(s)"
    ELSE "Retrieved 1 item(s)"

\* execute_info_tool_node after the dispatcher returned o.
Gathered(tool, o) ==
    IF Has(o, "thrown") THEN [raised |-> o.thrown, store |-> o.db]
    ELSE IF tool \in KeyedInfoTools /\ ~IsMapping(o.parameters)
    THEN [raised |-> "AttributeError: 'NoneType' object has no attribute 'get'",
          store |-> o.db]
    ELSE Executed(<<[tool |-> tool, parameters |-> o.parameters,
                     result |-> o.result,
                     result_summary |-> InfoSummary(o.result, o.db)]>>,
                  MergeInfo(entities, tool, o.parameters, o.result),
                  validation_errors, o.db, o.parameters)

\* execute_info_tool_node.  The Info state has no validation_errors key.
ExecuteInfo ==
    IF ~Truthy(selected_tool)
    THEN Executed(<<NoToolRecord>>, entities, validation_errors, store,
                  tool_parameters)
    ELSE Gathered(Get(selected_tool, "value", ""),
                  execute_info_tool(selected_tool, tool_parameters, store))

\* An executor node followed by the edge back to the planner.
ExecStep(r) ==
    /\ node = "execute_tool"
    /\ executions' = executions + 1
    /\ UNCHANGED <<domain, user_query, intent, intent_confidence,
                   last_reply, reply_changes, response_text,
                   parsed>>
    /\ IF Has(r, "raised")
       THEN RaiseFrom(r.raised) /\ store' = r.store
       ELSE /\ tools_called' = Reduce(tools_called, r.tools_called)
            /\ entities' = r.entities
            /\ validation_errors' = r.validation_errors
            /\ store' = r.store
            /\ tool_parameters' = r.tool_parameters
            /\ node' = "plan_action"
            /\ UNCHANGED <<iteration_count, next_action, selected_tool,
                           has_completed, reasoning, final_response, crash>>

execute_update_tool_node == domain = "update" /\ ExecStep(ExecuteUpdate)
execute_creation_tool_node == domain = "create" /\ ExecStep(ExecuteCreation)
execute_info_tool_node == domain = "info" /\ ExecStep(ExecuteInfo)

----------------------------------------------------------------------------
(* The response nodes: one call of the language model, then END.           *)

ResponseTexts == {"The request was handled."}

RespondStep ==
    /\ node = "generate_response"
    /\ UNCHANGED <<domain, user_query, intent, intent_confidence,
                   last_reply, reply_changes, executions,
                   response_text, parsed>>
    /\ \E text \in ResponseTexts \cup {"unavailable"} :
          IF text = "unavailable"
          THEN RaiseFrom("ConnectError") /\ UNCHANGED store
          ELSE /\ final_response' = text
               /\ tools_called' = Reduce(tools_called, tools_called)
               /\ node' = "END"
               /\ UNCHANGED <<iteration_count, next_action, selected_tool,
                              tool_parameters, has_completed, reasoning, entities,
                              validation_errors, store, crash>>

generate_update_response_node == domain = "update" /\ RespondStep
generate_creation_response_node == domain = "create" /\ RespondStep
generate_info_response_node == domain = "info" /\ RespondStep

----------------------------------------------------------------------------
(* The state a handler builds before it invokes its workflow, and the      *)
(* next-state relation.                                                    *)

Domains == {"create", "update", "info"}

\* The intent whose handler runs the loop of a domain.
Intent(dom) ==
    CASE dom = "create" -> "CREATE"
      [] dom = "update" -> "UPDATE"
      [] dom = "info" -> "INFO"
      [] OTHER -> ""

\* The state a handler hands to workflow.invoke.
InitialState ==
    /\ domain \in Domains
    /\ intent = JsonString(Intent(domain))
    /\ intent_confidence = JsonNumber("0.95")
    /\ user_query \in Queries(domain)
    /\ node = "plan_action"
    /\ iteration_count = 0
    /\ next_action = "call_tool"
    /\ selected_tool = JsonString("")
    /\ tool_parameters = JsonObject(EmptyDict)
    /\ has_completed = FALSE
    /\ reasoning = ""
    /\ tools_called = << >>
    /\ entities = EmptyDict
    /\ validation_errors = << >>
    /\ final_response = ""
    /\ store = MOCK_DATABASE
    /\ crash = ""
    /\ last_reply = NoReply
    /\ reply_changes = 0
    /\ executions = 0

Init ==
    /\ InitialState
    /\ response_text = << >>
    /\ parsed = << >>

Next ==
    \/ plan_update_action_node
    \/ plan_creation_action_node
    \/ plan_next_action_node
    \/ execute_update_tool_node
    \/ execute_creation_tool_node
    \/ execute_info_tool_node
    \/ generate_update_response_node
    \/ generate_creation_response_node
    \/ generate_info_response_node

Spec == Init /\ [][Next]_vars

\* Every node that is entered runs to its end.
FairSpec == Spec /\ WF_vars(Next)

----------------------------------------------------------------------------
(* safe_parse_json on its own: one call on each text of at most MaxTextLen *)
(* tokens, with the default of the Update planner.                         *)

TextAlphabet ==
    { LBrace, RBrace, Fence, JsonTag, Word, ArrayText,
      Members([next_action |-> "respond"]), Key(NestedKey) }

\* The texts of n tokens.
Texts(n) == [1..n -> TextAlphabet]

ExtractorInit ==
    /\ InitialState
    /\ domain = "update"
    /\ user_query = {}
    /\ \E n \in 0..MaxTextLen : response_text \in Texts(n)
    /\ parsed = << >>

parse_response ==
    /\ parsed = << >>
    /\ parsed' = <<safe_parse_json(response_text, default_response("update"))>>
    /\ UNCHANGED <<domain, user_query, intent, intent_confidence,
                   node, iteration_count, next_action,
                   selected_tool, tool_parameters, has_completed, reasoning,
                   tools_called, entities, validation_errors, final_response,
                   store, crash, last_reply, reply_changes, executions,
                   response_text>>

ExtractorNext == parse_response

ExtractorSpec == ExtractorInit /\ [][ExtractorNext]_vars

----------------------------------------------------------------------------
(* Properties of the domain loops.                                         *)

Planning == node = "plan_action"
Executing == node = "execute_tool"
Responding == node = "generate_response"
Terminal == node = "END"
Aborted == node = "crashed"

\* C1: in every run of the Create, Update or Info loop, whatever the
\* decision service replies and the tools return, iteration_count never
\* exceeds max_iterations (8, 8, 5), at loop exit in particular.
C1_CountWithinCeiling == iteration_count <= MaxIterations(domain)

\* A run that was answered call_tool until the ceiling stopped it.
C1_Witness ==
    /\ Terminal
    /\ iteration_count = MaxIterations(domain)
    /\ reasoning = "Maximum iterations reached"

\* C2: provided every call of the decision service returns, every run
\* reaches the response node and then END.
C2_RunReachesEnd == <>(Terminal \/ crash = "ConnectError")

\* C3 as stated: no executor step follows a planning step whose recorded
\* completion flag is true.
C3_NoExecutingAfterFlag ==
    [][(Planning /\ has_completed') => node' # "execute_tool"]_vars

\* C3 as amended: the routers read next_action alone.  A planning step
\* entered at the ceiling goes to the response node; any planning step that
\* returns goes to the executor exactly when the next_action it recorded is
\* "call_tool", whatever completion flag it recorded.
C3_RoutedByNextAction ==
    [][Planning =>
         /\ CeilingReached => node' = "generate_response"
         /\ node' \in {"execute_tool", "generate_response", "crashed"}
         /\ node' = "execute_tool" => next_action' = "call_tool"
         /\ node' = "generate_response" => next_action' # "call_tool"]_vars

\* The executor is entered with the completion flag recorded as true.
C3_Witness == Executing /\ has_completed /\ next_action = "call_tool"

\* C4 as stated: every planning step that returns adds one to
\* iteration_count, and no other step changes it.
C4_CountsEveryPlanningStep ==
    [][IF Planning /\ node' # "crashed"
       THEN iteration_count' = iteration_count + 1
       ELSE iteration_count' = iteration_count]_vars

\* The planning steps that return without writing iteration_count: the one
\* entered at the ceiling, and the Create step forced by a created rule.
CountIsKept ==
    CeilingReached \/ (domain = "create" /\ ListLength("rules") > 0)

\* C4 as amended: a planning step that returns adds one to iteration_count,
\* except the step entered at the ceiling and the Create step forced by the
\* accumulator, which leave it as it is; a planning step that raises, and
\* every executor and response step, leave it as it is.
C4_CountsPlanningSteps ==
    [][IF Planning /\ node' # "crashed" /\ ~CountIsKept
       THEN iteration_count' = iteration_count + 1
       ELSE iteration_count' = iteration_count]_vars

\* The Create loop after one rule was created at the first iteration and
\* the second planning step forced completion: the count is still 1.
C4_Witness ==
    /\ domain = "create"
    /\ Responding
    /\ reasoning = "Rule created. No sufficient information for conditions or actions."
    /\ iteration_count = 1

\* The accumulator of the Update loop holds a successful activation,
\* deactivation, condition update or action update.
UpdateRecorded ==
    /\ domain = "update"
    /\ \E key \in {"activations", "deactivations", "conditions", "actions"} :
          Has(entities, key) /\ Len(entities[key]) > 0

\* C5: in the Update loop, once the accumulator records a successful
\* activation, deactivation, condition update or action update, the next
\* planning step records next_action "respond" with the completion flag
\* true and goes to the response node, and the executor is never entered
\* again.
C5_UpdateForcesCompletion ==
    [][/\ (UpdateRecorded /\ Planning) =>
             /\ node' = "generate_response"
             /\ next_action' = "respond"
             /\ has_completed'
             /\ last_reply' = last_reply
       /\ UpdateRecorded => node' # "execute_tool"]_vars

\* An activation was recorded and the planning step after it forced
\* completion.
C5_Witness ==
    /\ UpdateRecorded
    /\ Has(entities, "activations")
    /\ Responding
    /\ reasoning = "Updates are complete"

\* The accumulator of the Create loop holds a created rule.
RuleRecorded ==
    domain = "create" /\ Has(entities, "rules") /\ Len(entities.rules) > 0

\* C6: in the Create loop, once the accumulator holds a created rule, with
\* or without a condition or an action, the next planning step records
\* next_action "respond" with the completion flag true and goes to the
\* response node, and the executor is never entered again.
C6_CreatedRuleForcesCompletion ==
    [][/\ (RuleRecorded /\ Planning) =>
             /\ node' = "generate_response"
             /\ next_action' = "respond"
             /\ has_completed'
             /\ last_reply' = last_reply
       /\ RuleRecorded => node' # "execute_tool"]_vars

\* A run that ended after create_automation_rule alone: one rule, no
\* condition, no action, completion recorded.
C6_Witness ==
    /\ RuleRecorded
    /\ Terminal
    /\ ~Has(entities, "conditions")
    /\ ~Has(entities, "actions")
    /\ has_completed
    /\ Len(store.rules) = Len(MOCK_DATABASE.rules) + 1

\* What the dispatcher of the running loop yields for the selected tool.
ToolOutcome == ExecuteTool(domain, selected_tool, tool_parameters, store)

\* The executor is about to run a tool whose result is an error.
ToolReturnsError ==
    /\ Executing
    /\ Truthy(selected_tool)
    /\ Has(ToolOutcome, "result")
    /\ HasError(ToolOutcome.result)

\* C7: in the Create, Update and Info loops, an executor step whose tool
\* returns an error adds exactly that error to the validation error list
\* and is followed by the planner.
C7_ErrorIsListed ==
    [][ToolReturnsError =>
         /\ validation_errors' = Append(validation_errors, ToolOutcome.result.error)
         /\ node' = "plan_action"]_vars

\* Some executor step of this run had an error result.
ToolFailed ==
    \E i \in 1..Len(tools_called) :
        Has(tools_called[i], "result") /\ HasError(tools_called[i].result)

\* What a planning step raises because of the decision service or its reply.
ReplyFaults == {"ConnectError", "AttributeError: 'list' object has no attribute 'get'"}

\* C8: after an executor step whose tool result is an error, a planning
\* step does not raise on account of that error: it returns.
C8_PlanningSurvivesToolFailure ==
    [][(Planning /\ ToolFailed /\ node' = "crashed") => crash' \in ReplyFaults]_vars

\* A reply that is no text (the call raised), holds no JSON object, or
\* holds a JSON value that is not an object.
Malformed(text) ==
    text.form \in {"prose", "unavailable"} \/ ~IsMapping(text.value)

\* C9: a planning step whose call of the decision service fails, or whose
\* reply is malformed, records a forced completion and goes to the response
\* node.
C9_MalformedReplyDegrades ==
    [][(Planning /\ ConsultsService /\ Malformed(last_reply')) =>
         /\ node' = "generate_response"
         /\ next_action' = "respond"
         /\ has_completed']_vars

ToolNames ==
    AVAILABLE_CREATE_TOOLS \cup AVAILABLE_UPDATE_TOOLS \cup AVAILABLE_INFO_TOOLS
    \cup {"delete_rule", ""}

\* The parameter bags the planning replies of a loop hold, and two values
\* that are no mapping.
Bags(dom) == {c.tool_parameters : c \in Calls(dom)} \cup {JsonNull, JsonArray}

\* Whether Python can bind the bag to the keywords of the tool.
Binds(tool, bag) ==
    /\ IsMapping(bag)
    /\ (DOMAIN bag.value) \subseteq Accepted(tool)
    /\ Required(tool) \subseteq (DOMAIN bag.value)

\* The dispatcher returned o, and o is {error: ...} when the name is not in
\* the registry or the bag does not bind.
ReturnsResult(dom, name, bag, o) ==
    /\ Has(o, "result")
    /\ ~Has(o, "thrown")
    /\ (name \notin Registry(dom) \/ ~Binds(name, bag)) =>
           /\ HasError(o.result)
           /\ DOMAIN o.result = {"error"}
           /\ o.db = store

----------------------------------------------------------------------------
(* Replies that are not a bare decision object.                            *)

ParseErrors ==
    {"Parse error - could not extract valid JSON from response", "Parse error"}

\* C11: in every domain loop, a planning step whose reply is plain prose
\* with no brace forces completion: it goes on to the response node with
\* next action respond, the completion flag set, a reasoning that names the
\* parse error and the iteration count one higher.
C11_ProseForcesCompletion ==
    [][(Planning /\ ConsultsService /\ last_reply'.form = "prose")
         => /\ node' = "generate_response"
            /\ next_action' = "respond"
            /\ has_completed'
            /\ reasoning' \in ParseErrors
            /\ iteration_count' = iteration_count + 1]_vars

\* A prose reply came after a tool call and forced completion.
C11_Witness ==
    /\ Responding
    /\ last_reply.form = "prose"
    /\ reasoning \in ParseErrors
    /\ has_completed
    /\ iteration_count = 2

\* The decision object a reply holds.
Held(text) == text.value.value

\* C12: in the Create, Update and Info loops alike, a planning step whose
\* reply holds a decision object inside a fenced block or between prose
\* records that decision: it is not treated as a parse failure.
C12_WrappedDecisionIsRecovered ==
    [][(/\ Planning
        /\ ConsultsService
        /\ last_reply'.form \in {"fenced", "wrapped"}
        /\ IsMapping(last_reply'.value))
         => /\ node' # "crashed"
            /\ reasoning' \notin ParseErrors
            /\ reasoning' = Get(Held(last_reply'), "reasoning", "")
            /\ next_action' = Get(Held(last_reply'), "next_action", "respond")]_vars

----------------------------------------------------------------------------
(* safe_parse_json as a function of the text.                              *)

Places(text, tok) == { i \in 1..Len(text) : text[i] = tok }

Least(S) == CHOOSE i \in S : \A j \in S : i <= j
Greatest(S) == CHOOSE i \in S : \A j \in S : j <= i

\* The fenced blocks that hold an object, as the places <<first, last>> of
\* the object's braces: a fence, json or not, right before the opening
\* brace and a fence right after the closing one.
FencedObjects(text) ==
    { b \in (1..Len(text)) \X (1..Len(text)) :
        /\ b[1] < b[2]
        /\ text[b[1]] = LBrace
        /\ text[b[2]] = RBrace
        /\ b[2] < Len(text) /\ text[b[2] + 1] = Fence
        /\ \/ b[1] > 1 /\ text[b[1] - 1] = Fence
           \/ b[1] > 2 /\ text[b[1] - 1] = JsonTag /\ text[b[1] - 2] = Fence }

\* The first of them, closed as early as can be.
FirstFencedObject(text) ==
    CHOOSE b \in FencedObjects(text) :
        \A c \in FencedObjects(text) :
            b[1] < c[1] \/ (b[1] = c[1] /\ b[2] <= c[2])

HasBraces(text) ==
    /\ Places(text, LBrace) # {}
    /\ Places(text, RBrace) # {}
    /\ Least(Places(text, LBrace)) < Greatest(Places(text, RBrace))

FirstToLastBrace(text) ==
    SubSeq(text, Least(Places(text, LBrace)), Greatest(Places(text, RBrace)))

\* The one text the second attempt parses.
Chosen(text) ==
    IF FencedObjects(text) # {}
    THEN SubSeq(text, FirstFencedObject(text)[1], FirstFencedObject(text)[2])
    ELSE IF HasBraces(text) THEN FirstToLastBrace(text)
    ELSE text

Parsed(value) == [value |-> value, ok |-> TRUE]

\* C13: on every text safe_parse_json tries, in this order, (1) the trimmed
\* text itself; (2) when that fails and a fenced block holding an object
\* exists, only the inside of that block; (3) otherwise the text from the
\* first opening brace to the last closing brace; (4) when the attempt it
\* chose fails, it returns the caller's default with ok false.
C13_AttemptsInOrder ==
    parsed # << >> =>
        parsed[1] =
            IF JsonLoads(response_text).ok
            THEN Parsed(JsonLoads(response_text).value)
            ELSE IF JsonLoads(Chosen(response_text)).ok
            THEN Parsed(JsonLoads(Chosen(response_text)).value)
            ELSE [value |-> default_response("update"), ok |-> FALSE]

\* The inside of a fenced block was parsed where the text from the first to
\* the last brace does not parse.
C13_Witness ==
    /\ parsed # << >>
    /\ parsed[1].ok
    /\ ~JsonLoads(response_text).ok
    /\ FencedObjects(response_text) # {}
    /\ ~JsonLoads(FirstToLastBrace(response_text)).ok

\* C14: for every decision object the service writes as bare JSON, with no
\* prose around it, safe_parse_json on that text returns the same object
\* and ok true.
C14_RoundTrip ==
    (last_reply.form = "json" /\ IsMapping(last_reply.value))
        => safe_parse_json(Content(last_reply), default_response(domain))
              = Parsed(last_reply.value)

\* A planning step has read a bare decision object with tool parameters.
C14_Witness ==
    /\ Executing
    /\ last_reply.form = "json"
    /\ IsMapping(last_reply.value)
    /\ IsNested(Held(last_reply))
    /\ DOMAIN Held(last_reply)[NestedKey].value # {}

----------------------------------------------------------------------------
(* The eligible tools and the record identifiers a run knows.              *)

RuleIds(rules) == { rules[i].id : i \in 1..Len(rules) }

\* The identifiers of the rules of a listing kept under key.
ListedIds(acc, key, db) ==
    IF Has(acc, key) /\ IsList(acc[key]) THEN RuleIds(ListItems(db, acc[key]))
    ELSE {}

\* target_rule_id and last_rule_id.
PointerIds(acc) ==
    { acc[k] : k \in (DOMAIN acc) \cap {"target_rule_id", "last_rule_id"} }

\* The rules a Create run created.
CreatedIds(dom, acc) ==
    IF dom = "create" /\ Has(acc, "rules") THEN RuleIds(acc.rules) ELSE {}

\* The rules an Info run fetched one by one.
FetchedIds(dom, acc) ==
    IF dom = "info" /\ Has(acc, "rules")
    THEN { acc.rules[k].id : k \in { x \in DOMAIN acc.rules : ~HasError(acc.rules[x]) } }
    ELSE {}

\* Every record identifier the accumulator holds.
KnownIds(dom, acc, db) ==
    ListedIds(acc, "retrieved_rules", db) \cup ListedIds(acc, "all_rules", db)
        \cup PointerIds(acc) \cup CreatedIds(dom, acc) \cup FetchedIds(dom, acc)

RecordIdKnown == KnownIds(domain, entities, store) # {}

\* C15: in every domain loop, once the run knows a record id, the tool
\* list_automation_rules is not among the eligible tools of any later
\* planning step that presents tools to the decision service.
C15_ListingLeavesEligibleTools ==
    (Planning /\ ConsultsService /\ RecordIdKnown)
        => "list_automation_rules" \notin tool_descriptions

Mutators ==
    {"activate_automation_rule", "deactivate_automation_rule", "update_condition",
     "update_action"}

\* The executor calls a tool of its domain's registry.
InvokesTool ==
    /\ Executing
    /\ selected_tool.json = "string"
    /\ selected_tool.value \in Registry(domain)

\* The call record the executor step adds.
NewRecord == tools_called'[Len(tools_called')]

\* The executor step returns with the result of the tool, not an error.
ToolSucceeds == node' = "plan_action" /\ ~HasError(NewRecord.result)

\* C16: an Executing step never invokes a tool outside the eligible tools
\* the planning step right before it computed, and the Update loop never
\* executes activate_automation_rule, deactivate_automation_rule,
\* update_condition or update_action before a record id is known.
C16_ExecutesEligibleToolsOnly ==
    [][(InvokesTool /\ ToolSucceeds)
         => /\ selected_tool.value \in tool_descriptions
            /\ (domain = "update" /\ selected_tool.value \in Mutators)
                  => RecordIdKnown]_vars

----------------------------------------------------------------------------
(* Forced completions.                                                     *)

\* The Update loop retrieved a rule listing and resolved no target rule id
\* from it.
Unresolved ==
    /\ domain = "update"
    /\ Has(entities, "retrieved_rules")
    /\ ~Has(entities, "target_rule_id")

\* C17: in the Update loop, whenever a rule listing has been retrieved and
\* no target rule id was resolved from it, the next planning step forces
\* completion with a reasoning that says why (the rule was not found, or
\* the ceiling was reached), does not consult the decision service, and no
\* tool is called any more in the run.
C17_UnresolvedForcesCompletion ==
    [][/\ (Unresolved /\ Planning) =>
             /\ node' = "generate_response"
             /\ next_action' = "respond"
             /\ has_completed'
             /\ reasoning' =
                  IF iteration_count >= MaxIterationsUpdate
                  THEN "Maximum iterations reached"
                  ELSE "Unable to find the rule to update the information."
             /\ last_reply' = last_reply
             /\ reply_changes' = reply_changes
       /\ Unresolved => node' # "execute_tool" /\ executions' = executions]_vars

\* A listing that held no rule of the query forced completion.
C17_Witness ==
    /\ Unresolved
    /\ Responding
    /\ reasoning = "Unable to find the rule to update the information."
    /\ executions = 1

\* C18: a run never makes more executor steps than its ceiling of
\* iterations: the executor has run at most as often as the count says, and
\* a planning step entered with the count at the ceiling forces completion
\* and goes to the response node with no request to the decision service
\* and no tool call.
C18_ExecutionsWithinCeiling ==
    [][/\ executions' <= iteration_count'
       /\ executions' <= MaxIterations(domain)
       /\ (Planning /\ iteration_count >= MaxIterations(domain)) =>
             /\ node' = "generate_response"
             /\ next_action' = "respond"
             /\ has_completed'
             /\ last_reply' = last_reply
             /\ reply_changes' = reply_changes
             /\ executions' = executions]_vars

\* The executor ran as often as the ceiling allows, and planning stopped
\* the run.
C18_Witness ==
    /\ executions = MaxIterations(domain)
    /\ Responding
    /\ reasoning = "Maximum iterations reached"

----------------------------------------------------------------------------
(* The entity accumulator.                                                 *)

LastRecord == tools_called[Len(tools_called)]

\* The executor has just merged the result of its call record into the
\* accumulator (the Update and Create executors merge no error).
JustMerged ==
    /\ Planning
    /\ executions > 0
    /\ Has(LastRecord, "result")
    /\ domain = "info" \/ ~LastRecord.has_error

\* The accumulator after the merge of the last call record is run again.
MergedAgain ==
    CASE domain = "update" ->
           MergeUpdate(entities, LastRecord.tool, LastRecord.result, store)
      [] domain = "create" ->
           MergeCreation(entities, LastRecord.tool, LastRecord.result)
      [] OTHER ->
           MergeInfo(entities, LastRecord.tool, LastRecord.parameters,
                     LastRecord.result)

\* C19: in the Create, Update and Info loops, merging the result of a call
\* record that is already merged a second time adds no second entry to
\* the accumulator.
C19_MergeIsIdempotent == JustMerged => MergedAgain = entities

\* C20: in every domain loop the accumulator never shrinks: every record
\* identifier it holds after a step (created rule, target_rule_id,
\* last_rule_id, retrieved or listed rule ids) it still holds after every
\* later step, whatever tool is called and whatever it returns.
C20_AccumulatorNeverShrinks ==
    [][KnownIds(domain, entities, store)
          \subseteq KnownIds(domain, entities', store')]_vars

----------------------------------------------------------------------------
(* The call history and the edges of the loop.                             *)

\* C21: the call history tools_called is append-only and holds exactly one
\* call record for each executor step, in the order of execution: after any
\* sequence of planning, executor and response steps that returned, its
\* length is the number of executor steps made.
C21_OneRecordPerExecution ==
    ~Aborted => Len(tools_called) = executions

\* C25: the response step of every domain loop makes no tool call: it
\* leaves the store, the accumulator, the call history, the validation
\* errors and the iteration count as they are and only sets the final
\* response.
C25_ResponseStepFrame ==
    [][(Responding /\ node' = "END")
         => UNCHANGED <<store, entities, tools_called, validation_errors,
                        iteration_count>>]_vars

\* The executor step returns with an error result of the tool.
ToolErrs ==
    /\ Executing
    /\ node' = "plan_action"
    /\ Has(NewRecord, "result")
    /\ HasError(NewRecord.result)

\* C28: an executor step whose tool result is an error leaves the
\* accumulator (created_entities, updated_entities, gathered_data) as it
\* was: an error result is never merged as data.
C28_ErrorIsNotMerged ==
    [][ToolErrs => entities' = entities]_vars

\* The edges of a domain loop.
LoopEdges ==
    { <<"plan_action", "execute_tool">>, <<"plan_action", "generate_response">>,
      <<"execute_tool", "plan_action">>, <<"generate_response", "END">> }

\* The run ends in this step because the decision service or the language
\* model could not be reached.
ServiceFails == node' = "crashed" /\ crash' = "ConnectError"

\* C24: a domain loop run starts in planning with count 0 and an empty
\* accumulator and, as long as its services answer, takes only the steps
\* planning to executor, planning to response, executor to planning and
\* response to the end: the executor is entered only by a planning step
\* that chose call_tool and is followed by planning, and the response node
\* comes once, last.
C24_LoopEdgesOnly ==
    /\ Planning /\ iteration_count = 0 /\ entities = EmptyDict
    /\ [][(node' # node /\ ~ServiceFails) =>
             /\ <<node, node'>> \in LoopEdges
             /\ node' = "execute_tool" => next_action' = "call_tool"]_vars


----------------------------------------------------------------------------
(* The stored conditions and actions.                                      *)

\* The executor calls update_condition or update_action and the call
\* returns an error.
UpdateCallErrs ==
    /\ InvokesTool
    /\ selected_tool.value \in {"update_condition", "update_action"}
    /\ ToolErrs

\* C29: update_condition and update_action are all-or-nothing: whenever a
\* call returns an error, the stored conditions and actions are exactly as
\* they were before the call.
C29_UpdateIsAllOrNothing ==
    [][UpdateCallErrs =>
          /\ store'.conditions = store.conditions
          /\ store'.actions = store.actions]_vars

\* Every condition of the store, whatever rule it belongs to.
StoredConditions ==
    UNION { { store.conditions[r][i] : i \in 1..Len(store.conditions[r]) }
              : r \in DOMAIN store.conditions }

\* minFrequencyMHz and maxFrequencyMHz of a condition are in range and
\* ordered, where the condition holds them.
FrequenciesInOrder(c) ==
    LET p == c.parameters
    IN  /\ Has(p, "minFrequencyMHz") =>
               /\ MinFrequencyMHz <= p.minFrequencyMHz
               /\ p.minFrequencyMHz <= MaxFrequencyMHz
        /\ Has(p, "maxFrequencyMHz") =>
               /\ MinFrequencyMHz <= p.maxFrequencyMHz
               /\ p.maxFrequencyMHz <= MaxFrequencyMHz
        /\ (Has(p, "minFrequencyMHz") /\ Has(p, "maxFrequencyMHz")) =>
               p.minFrequencyMHz < p.maxFrequencyMHz

\* C30: after any sequence of tool calls of the Create and Update
\* registries, every condition in the store satisfies
\* 10 <= minFrequencyMHz < maxFrequencyMHz <= 6000.
C30_StoredFrequenciesInOrder ==
    \A c \in StoredConditions : FrequenciesInOrder(c)


----------------------------------------------------------------------------
(* One successful change per run.                                          *)

\* The executor of the Create loop calls a creation tool and it succeeds.
CreateSucceeds ==
    /\ InvokesTool
    /\ domain = "create"
    /\ selected_tool.value \in AVAILABLE_CREATE_TOOLS \ {"list_automation_rules"}
    /\ ToolSucceeds

\* The executor of the Update loop calls one of the four mutating tools
\* and it succeeds.
MutationSucceeds ==
    /\ InvokesTool
    /\ domain = "update"
    /\ selected_tool.value \in Mutators
    /\ ToolSucceeds

\* C27: in a Create run at most one creation tool call succeeds, so the
\* run adds at most one rule to the store; in an Update run at most one
\* call of activate_automation_rule, deactivate_automation_rule,
\* update_condition and update_action succeeds.  A success is recorded in
\* the accumulator, the record stays, and no call succeeds once it is there.
C27_AtMostOneSuccess ==
    [][/\ CreateSucceeds => (~RuleRecorded /\ RuleRecorded')
       /\ RuleRecorded => RuleRecorded'
       /\ MutationSucceeds => (~UpdateRecorded /\ UpdateRecorded')
       /\ UpdateRecorded => UpdateRecorded'
       /\ domain = "create" =>
             Len(store'.rules) <= Len(MOCK_DATABASE.rules) + 1
       /\ domain = "update" =>
             Len(store'.rules) = Len(MOCK_DATABASE.rules)]_vars

\* A Create run that ended with one rule added, after a creation call that
\* was rejected and one that succeeded with a condition.
C27_Witness ==
    /\ RuleRecorded
    /\ Terminal
    /\ Has(entities, "conditions")
    /\ Len(validation_errors) > 0
    /\ Len(store.rules) = Len(MOCK_DATABASE.rules) + 1


----------------------------------------------------------------------------
(* The intent workflow: initial_analyzer, intent_classifier, the edge       *)
(* route_by_intent and the handlers.  A handler of CREATE, UPDATE or INFO  *)
(* builds the state of its loop and invokes the loop's workflow: the run   *)
(* goes on at plan_action, and it ends where the loop ends, the handler    *)
(* copying final_response.  The flags the analyzer records only choose the *)
(* context of the classifier's prompt and are left out.                    *)

\* A node of the intent workflow returns {**state, ...} or raises: where
\* the run goes, the exception and final_response.
IntentStep(to, exc, response) ==
    /\ node' = to
    /\ crash' = exc
    /\ final_response' = response
    /\ UNCHANGED <<user_query, iteration_count, next_action, selected_tool,
                   tool_parameters, has_completed, reasoning, tools_called,
                   entities, validation_errors, store, reply_changes,
                   executions, response_text, parsed>>

\* The try block of a node that reads a JSON object from response.content
\* with json.loads: what it raises, "" when it returns.
ReplyFault(text) ==
    IF text.form = "unavailable" THEN "ConnectError"
    ELSE IF JsonLoads(Content(text)).ok /\ ~IsMapping(JsonLoads(Content(text)).value)
    THEN "AttributeError: 'list' object has no attribute 'get'"
    ELSE ""

initial_analyzer_node ==
    /\ node = "initial_analyzer"
    /\ \E text \in { Text("json", JsonObject([requires_rf_knowledge |-> TRUE])),
                     Text("prose", JsonNull),
                     Text("json", JsonArray),
                     Text("unavailable", JsonNull) } :
          /\ last_reply' = text
          /\ IF ReplyFault(text) # ""
             THEN IntentStep("crashed", ReplyFault(text), final_response)
             ELSE IntentStep("intent_classifier", crash, final_response)
    /\ UNCHANGED <<domain, intent, intent_confidence>>

\* intent_classifier_node from the reply on: [intent, intent_confidence]
\* or [raised].
Classified_RaisesOnParseError(text) ==
    IF ReplyFault(text) # "" THEN [raised |-> ReplyFault(text)]
    ELSE IF ~JsonLoads(Content(text)).ok
    THEN [raised |-> "JSONDecodeError"]
    ELSE LET d == JsonLoads(Content(text)).value.value
             confidence == Get(d, "confidence", JsonNumber("0.0"))
         IN  IF confidence.json # "number"
             THEN [raised |-> "ValueError: Unknown format code 'f' for object of type 'str'"]
             ELSE [intent |-> Get(d, "intent", JsonString("GENERIC")),
                   intent_confidence |-> confidence]

Classified(text) ==
    IF ReplyFault(text) # "" THEN [raised |-> ReplyFault(text)]
    ELSE IF ~JsonLoads(Content(text)).ok
    THEN [intent |-> JsonString("GENERIC"), intent_confidence |-> JsonNumber("0.3")]
    ELSE LET d == JsonLoads(Content(text)).value.value
             confidence == Get(d, "confidence", JsonNumber("0.0"))
         IN  IF confidence.json # "number"
             THEN [raised |-> "ValueError: Unknown format code 'f' for object of type 'str'"]
             ELSE [intent |-> Get(d, "intent", JsonString("GENERIC")),
                   intent_confidence |-> confidence]

\* routing_map.get(intent, "generic_handler"), and the node the edge maps
\* the key to.
route_by_intent_UnknownIsGeneric(i) ==
    CASE i = JsonString("CREATE") -> "create_handler"
      [] i = JsonString("UPDATE") -> "update_handler"
      [] i = JsonString("INFO") -> "info_handler"
      [] i = JsonString("GENERIC") -> "generic_handler"
      [] OTHER -> "generic_handler"

route_by_intent(i) ==
    CASE i = JsonString("CREATE") -> "create_handler"
      [] i = JsonString("UPDATE") -> "update_handler"
      [] i = JsonString("INFO") -> "info_handler"
      [] i = JsonString("GENERIC") -> "generic_handler"
      [] i = JsonString("UNKNOWN") -> "error"
      [] OTHER -> "generic_handler"

\* The classifier node followed by the conditional edge out of it.
intent_classifier_node ==
    /\ node = "intent_classifier"
    /\ \E text \in
          { Text("json", JsonObject([intent |-> JsonString(i),
                                     confidence |-> JsonNumber("0.95")])) :
               i \in {"CREATE", "UPDATE", "INFO", "GENERIC", "UNKNOWN", "DELETE",
                      "create"} }
          \cup { Text("json", JsonObject(EmptyDict)),
                 Text("json", JsonObject([intent |-> JsonArray,
                                          confidence |-> JsonNumber("0.95")])),
                 Text("json", JsonObject([intent |-> JsonString("CREATE"),
                                          confidence |-> JsonString("high")])),
                 Text("fenced", JsonObject([intent |-> JsonString("CREATE"),
                                            confidence |-> JsonNumber("0.95")])),
                 Text("prose", JsonNull),
                 Text("json", JsonArray),
                 Text("unavailable", JsonNull) } :
          /\ last_reply' = text
          /\ IF Has(Classified(text), "raised")
             THEN /\ IntentStep("crashed", Classified(text).raised, final_response)
                  /\ UNCHANGED <<intent, intent_confidence>>
             ELSE /\ intent' = Classified(text).intent
                  /\ intent_confidence' = Classified(text).intent_confidence
                  /\ IF Hashable(Classified(text).intent)
                     THEN IntentStep(route_by_intent(Classified(text).intent),
                                     crash, final_response)
                     ELSE IntentStep("crashed", "TypeError: unhashable type: 'list'",
                                     final_response)
    /\ UNCHANGED domain

\* create_intent_handler, update_intent_handler and info_intent_handler up
\* to workflow.invoke.
intent_handler(dom) ==
    /\ node = dom \o "_handler"
    /\ domain' = dom
    /\ last_reply' = NoReply
    /\ IntentStep("plan_action", crash, final_response)
    /\ UNCHANGED <<intent, intent_confidence>>

generic_intent_handler ==
    /\ node = "generic_handler"
    /\ \E text \in ResponseTexts \cup {"unavailable"} :
          IF text = "unavailable"
          THEN IntentStep("crashed", "ConnectError", final_response)
          ELSE IntentStep("END", crash, text)
    /\ UNCHANGED <<domain, intent, intent_confidence, last_reply>>

error_node ==
    /\ node = "error"
    /\ IntentStep("END", crash,
          "Sorry, I could not understand your request or may be your request not relevant")
    /\ UNCHANGED <<domain, intent, intent_confidence, last_reply>>

\* initial_state of classify_intent; no loop is chosen yet.
IntentInit ==
    /\ domain = ""
    /\ intent = JsonString("")
    /\ intent_confidence = JsonNumber("0.0")
    /\ user_query \in Queries("update")
    /\ node = "initial_analyzer"
    /\ iteration_count = 0
    /\ next_action = "call_tool"
    /\ selected_tool = JsonString("")
    /\ tool_parameters = JsonObject(EmptyDict)
    /\ has_completed = FALSE
    /\ reasoning = ""
    /\ tools_called = << >>
    /\ entities = EmptyDict
    /\ validation_errors = << >>
    /\ final_response = ""
    /\ store = MOCK_DATABASE
    /\ crash = ""
    /\ last_reply = NoReply
    /\ reply_changes = 0
    /\ executions = 0
    /\ response_text = << >>
    /\ parsed = << >>

IntentNext ==
    \/ initial_analyzer_node
    \/ intent_classifier_node
    \/ \E dom \in Domains : intent_handler(dom)
    \/ generic_intent_handler
    \/ error_node
    \/ Next

IntentSpec == IntentInit /\ [][IntentNext]_vars


----------------------------------------------------------------------------
(* Properties of the intent workflow.                                      *)

\* The branch a run is in: "" before the classifier has routed it and
\* after it has ended.
Branch ==
    CASE node = "create_handler" -> "create"
      [] node = "update_handler" -> "update"
      [] node = "info_handler" -> "info"
      [] node \in {"plan_action", "execute_tool", "generate_response"} -> domain
      [] node = "generic_handler" -> "generic"
      [] node = "error" -> "apology"
      [] OTHER -> ""

\* The branch the routing has for each of the five intents.
BranchOfIntent ==
    [i \in {"CREATE", "UPDATE", "INFO", "GENERIC", "UNKNOWN"} |->
        CASE i = "CREATE" -> "create"
          [] i = "UPDATE" -> "update"
          [] i = "INFO" -> "info"
          [] i = "GENERIC" -> "generic"
          [] OTHER -> "apology"]

\* The classifier has returned with one of the five intents.
ClassifiedAs(i) ==
    node = "intent_classifier" /\ node' # "crashed" /\ intent' = JsonString(i)

\* C22: for each top-level query exactly one branch runs after the
\* classifier, chosen by the classified intent: CREATE the Create loop,
\* UPDATE the Update loop, INFO the Info loop, GENERIC one generic response
\* with no tool loop, UNKNOWN the fixed apology; the run stays in its
\* branch until it ends, and nothing follows its end.
C22_OneBranchByIntent ==
    [][/\ \A i \in DOMAIN BranchOfIntent :
             ClassifiedAs(i) => Branch' = BranchOfIntent[i]
       /\ Branch # "" =>
             \/ Branch' = Branch
             \/ Branch' = "" /\ node' \in {"END", "crashed"}
       /\ node \notin {"END", "crashed"}
       /\ Branch \in {"generic", "apology"} =>
             /\ node' \in {"END", "crashed"}
             /\ UNCHANGED <<store, tools_called, entities, iteration_count>>
       /\ Branch = "apology" =>
             /\ node' = "END"
             /\ final_response' =
                  "Sorry, I could not understand your request or may be your request not relevant"]_vars

\* A query classified UNKNOWN got the apology and nothing else.
C22_Witness ==
    /\ intent = JsonString("UNKNOWN")
    /\ Terminal
    /\ domain = ""
    /\ final_response =
         "Sorry, I could not understand your request or may be your request not relevant"

\* The reply the classifier received is a text json.loads rejects.
Unparsable(text) == text.form # "unavailable" /\ ~JsonLoads(Content(text)).ok

----------------------------------------------------------------------------
(* Two runs on one store.  MOCK_DATABASE is a module global: a second run  *)
(* in the same process works on the same store.  Of the second run only    *)
(* what it does to the store is kept: the executor step of a Create run    *)
(* that calls create_automation_rule, between two nodes of this run.       *)

other_run_creates_rule ==
    /\ node \in {"plan_action", "execute_tool", "generate_response"}
    /\ \A i \in 1..Len(store.rules) : store.rules[i].name # "Other Rule"
    /\ store' = create_automation_rule(store, [name |-> "Other Rule",
                                                description |-> "d"]).db
    /\ UNCHANGED <<domain, intent, intent_confidence, user_query, node,
                   iteration_count, next_action, selected_tool, tool_parameters,
                   has_completed, reasoning, tools_called, entities,
                   validation_errors, final_response, crash, last_reply,
                   reply_changes, executions, response_text, parsed>>

InterleavedNext == Next \/ other_run_creates_rule

InterleavedSpec == Init /\ [][InterleavedNext]_vars

\* The rule listing the accumulator holds, << >> when it holds none.
StoredListing ==
    IF Has(entities, "retrieved_rules") /\ IsList(entities.retrieved_rules)
    THEN ListItems(store, entities.retrieved_rules)
    ELSE IF Has(entities, "all_rules") /\ IsList(entities.all_rules)
    THEN ListItems(store, entities.all_rules)
    ELSE << >>

\* The listings the call history holds as results.
RecordedListings ==
    [i \in 1..Len(tools_called) |->
        IF Has(tools_called[i], "result") /\ IsList(tools_called[i].result)
        THEN ListItems(store, tools_called[i].result)
        ELSE << >>]

\* A step of the other run: no node of this run has run.
OtherRunSteps == node' = node /\ executions' = executions

\* C26: the state of a run is its own: when two runs interleave on the same
\* store, what the accumulator and the call history of one run hold changes
\* only at that run's own executor steps, never at a step of the other run.
C26_RunStateIsOwned ==
    [][OtherRunSteps =>
          /\ entities' = entities
          /\ tools_called' = tools_called
          /\ StoredListing' = StoredListing
          /\ RecordedListings' = RecordedListings]_vars


----------------------------------------------------------------------------
(* The combined creation tools and the references of the store.            *)

CombinedCreationTools ==
    {"create_rule_condition", "create_rule_action", "create_rule_condition_action"}

\* The executor calls a combined creation tool and returns.
CallsCombinedCreation ==
    /\ InvokesTool
    /\ selected_tool.value \in CombinedCreationTools
    /\ node' = "plan_action"

\* The conditions (the actions) a table holds for the rule.
PartsOf(table, rule_id) == Get(table, rule_id, << >>)

\* The step added exactly one rule, with as many conditions and actions as
\* the tool makes, each carrying the identifier of the new rule, and left
\* every other rule's conditions and actions as they were.
AddsOneRuleWithParts ==
    LET new == store'.rules[Len(store'.rules)].id
        tool == selected_tool.value
    IN  /\ store'.rules = Append(store.rules, store'.rules[Len(store'.rules)])
        /\ new \notin RuleIds(store.rules)
        /\ PartsOf(store.conditions, new) = << >>
        /\ PartsOf(store.actions, new) = << >>
        /\ Len(PartsOf(store'.conditions, new)) =
              IF tool = "create_rule_action" THEN 0 ELSE 1
        /\ Len(PartsOf(store'.actions, new)) =
              IF tool = "create_rule_condition" THEN 0 ELSE 1
        /\ \A r \in (DOMAIN store.conditions) \ {new} :
              PartsOf(store'.conditions, r) = store.conditions[r]
        /\ \A r \in (DOMAIN store.actions) \ {new} :
              PartsOf(store'.actions, r) = store.actions[r]

\* Every stored condition and action is kept under the identifier it
\* carries, and that identifier is the one of a stored rule.
ReferencesHold(db) ==
    /\ \A r \in DOMAIN db.conditions :
          /\ db.conditions[r] # << >> => r \in RuleIds(db.rules)
          /\ \A i \in 1..Len(db.conditions[r]) : db.conditions[r][i].rule_id = r
    /\ \A r \in DOMAIN db.actions :
          /\ db.actions[r] # << >> => r \in RuleIds(db.rules)
          /\ \A i \in 1..Len(db.actions[r]) : db.actions[r][i].rule_id = r

\* C31: create_rule_condition, create_rule_action and
\* create_rule_condition_action either return an error and add nothing to
\* the store, or add exactly one rule together with its condition and/or
\* action, whose rule_id is the new rule's id; after any sequence of tool
\* calls every stored condition and action belongs to a rule of the store.
C31_CombinedCreationIsAtomic ==
    [][/\ CallsCombinedCreation =>
             IF HasError(NewRecord.result) THEN store' = store
             ELSE AddsOneRuleWithParts
       /\ ReferencesHold(store')]_vars

\* A Create run that ended after create_rule_condition_action added a rule
\* with one condition and one action.
C31_Witness ==
    /\ domain = "create"
    /\ Terminal
    /\ Has(entities, "conditions")
    /\ Has(entities, "actions")
    /\ Len(store.rules) = Len(MOCK_DATABASE.rules) + 1
    /\ Len(PartsOf(store.conditions, store.rules[Len(store.rules)].id)) = 1
    /\ Len(PartsOf(store.actions, store.rules[Len(store.rules)].id)) = 1


----------------------------------------------------------------------------
(* The route out of planning.                                              *)

\* C32: in every domain loop the route out of planning depends on
\* next_action alone: a planning step that recorded "call_tool" is followed
\* by the executor and one that recorded anything else ("respond", the
\* default of a missing value, an unrecognised string) by the response
\* node, the completion flag it recorded being true or false.
C32_RouteReadsNextActionOnly ==
    [][(Planning /\ node' # "crashed" /\ has_completed' \in BOOLEAN) =>
          node' = IF next_action' = "call_tool" THEN "execute_tool"
                  ELSE "generate_response"]_vars

\* A planning step recorded an action the routers do not know, with the
\* completion flag false, and the run is at the response node.
C32_Witness ==
    /\ Responding
    /\ next_action = "confirm"
    /\ ~has_completed


----------------------------------------------------------------------------
(* The intents route_by_intent has no entry for.                           *)

\* The classifier node has returned: the run goes on, or the conditional
\* edge after the node raised.
ClassifierReturns ==
    /\ node = "intent_classifier"
    /\ node' # "crashed" \/ crash' = "TypeError: unhashable type: 'list'"

\* C33: route_by_intent is total: a classified intent outside CREATE,
\* UPDATE, INFO, GENERIC and UNKNOWN (a differently cased spelling, a
\* missing intent, any other value) is routed to the generic handler,
\* never to a domain loop and never to the error node.
C33_UnlistedIntentIsGeneric ==
    [][(ClassifierReturns
          /\ intent' \notin { JsonString(i) : i \in DOMAIN BranchOfIntent })
         => node' = "generic_handler"]_vars


----------------------------------------------------------------------------
(* The executor without a tool.                                            *)

\* The planning step chose call_tool with selected_tool empty or null.
NoToolSelected ==
    Executing /\ selected_tool \in {JsonString(""), JsonNull}

\* C34: when planning chooses call_tool with no selected tool (empty or
\* null), the executor step invokes no tool, appends one call record with
\* tool "none" and summary "No tool selected", leaves the store, the
\* accumulator and the validation errors unchanged, and returns to planning.
C34_NoToolIsRecorded ==
    [][NoToolSelected =>
          /\ node' = "plan_action"
          /\ tools_called' = Append(tools_called,
                                    [tool |-> "none",
                                     parameters |-> JsonObject(EmptyDict),
                                     result_summary |-> "No tool selected"])
          /\ UNCHANGED <<store, entities, validation_errors>>]_vars

\* The executor has returned to planning with the record of a call without
\* a tool, after the decision service named null as the tool.
C34_Witness ==
    /\ Planning
    /\ executions > 0
    /\ selected_tool = JsonNull
    /\ LastRecord.tool = "none"
    /\ LastRecord.result_summary = "No tool selected"


----------------------------------------------------------------------------
(* Activation and deactivation.                                            *)

\* The executor calls the tool with the identifier of a rule and returns.
CallsWithRuleId(tool) ==
    /\ InvokesTool
    /\ selected_tool.value = tool
    /\ IsMapping(tool_parameters)
    /\ DOMAIN tool_parameters.value = {"rule_id"}
    /\ node' = "plan_action"

\* The rule the call names, as the store holds it: << >> when there is none.
NamedRule ==
    SelectSeq(store.rules, LAMBDA rule : rule.id = tool_parameters.value.rule_id)

\* The result of the call is a success with the status.
SucceedsWith(status) ==
    /\ ~HasError(NewRecord.result)
    /\ NewRecord.result.success
    /\ NewRecord.result.status = status

\* C35: activate_automation_rule on a rule that is already enabled returns
\* a success with status already_active, deactivate_automation_rule on a
\* rule that is already disabled one with status already_inactive, and the
\* store is unchanged; for an identifier that matches no rule both return
\* an error and change nothing.
C35_ActivationIsIdempotent ==
    [][/\ (CallsWithRuleId("activate_automation_rule") /\ NamedRule # << >>
             /\ NamedRule[1].isEnabled)
          => (SucceedsWith("already_active") /\ store' = store)
       /\ (CallsWithRuleId("deactivate_automation_rule") /\ NamedRule # << >>
             /\ ~NamedRule[1].isEnabled)
          => (SucceedsWith("already_inactive") /\ store' = store)
       /\ (\E tool \in {"activate_automation_rule", "deactivate_automation_rule"} :
             CallsWithRuleId(tool) /\ NamedRule = << >>)
          => (HasError(NewRecord.result) /\ store' = store)]_vars

\* An Update run that ended after activating a rule that was enabled: the
\* activation is recorded and the store is the seeded one.
C35_Witness ==
    /\ domain = "update"
    /\ Terminal
    /\ Has(entities, "activations")
    /\ entities.activations[1].status = "already_active"
    /\ store = MOCK_DATABASE


----------------------------------------------------------------------------
(* The target rule of the Update loop.                                     *)

\* target_rule_id of the accumulator, "" when it is not set.
TargetRuleId(acc) == Get(acc, "target_rule_id", "")

\* The rule at place i of the store is the first whose lower-cased name
\* occurs in the query.
FirstNamed(i) ==
    /\ Lower(store.rules[i].name) \in user_query
    /\ \A j \in 1..(i - 1) : Lower(store.rules[j].name) \notin user_query

\* The executor calls list_automation_rules and it succeeds.
ListingSucceeds ==
    /\ InvokesTool
    /\ selected_tool.value = "list_automation_rules"
    /\ ToolSucceeds

\* C36: in the Update loop target_rule_id is set only by a successful
\* list_automation_rules call, and then to the id of the first rule in store
\* order whose name occurs, case-insensitively, in the user query; once set
\* it is never removed, and it always names a rule of the retrieved listing.
C36_TargetIsFirstNamedRule ==
    [][domain = "update" =>
          /\ TargetRuleId(entities') # TargetRuleId(entities) => ListingSucceeds
          /\ ListingSucceeds =>
                \A i \in 1..Len(store.rules) :
                   FirstNamed(i) => TargetRuleId(entities') = store.rules[i].id
          /\ Has(entities, "target_rule_id") => Has(entities', "target_rule_id")
          /\ Has(entities', "target_rule_id") =>
                /\ Has(entities', "retrieved_rules")
                /\ TargetRuleId(entities') \in
                      RuleIds(ListItems(store', entities'.retrieved_rules))]_vars

\* An Update run whose query names two rules listed the rules: the target
\* is the first of the store, not the first of the query.
C36_Witness ==
    /\ domain = "update"
    /\ user_query = {"lte detector", "5g monitor"}
    /\ Planning
    /\ Has(entities, "retrieved_rules")
    /\ TargetRuleId(entities) = "rule-001"

====
